---------------------------- MODULE Spec2Model ----------------------------
(***************************************************************************)
(* Appointment scheduling and pricing engine of the clinic backend         *)
(* (src/controllers/appointment.controller.js).                            *)
(*                                                                         *)
(* The persistent store is the `appointments` table (never deleted from,   *)
(* ids are the positions in the sequence) and the `vip_subscriptions`      *)
(* table.  Every HTTP handler is an async function: its awaited reads and  *)
(* its awaited write are separate database round trips.  Under Spec a      *)
(* handler is a Begin step (the reads and every early return) followed by  *)
(* a Write step (the prisma create/update and the final response), and     *)
(* other requests may run between the two.  Under SpecSerial the requests  *)
(* are served one at a time and a handler is one step.  SpecPricing adds   *)
(* the subscription handlers (src/controllers/vip.controller.js) and the   *)
(* expiry sweep (src/services/cronService.js) to the serial handlers;      *)
(* SpecVip interleaves the check and the insert of subscribe and           *)
(* reactivate.  SpecLimiter runs the per-user rate limiter                 *)
(* (src/middleware/auth.js, userRateLimit) on its own clock.               *)
(***************************************************************************)
EXTENDS Integers, Sequences, FiniteSets, TLC

VARIABLES
  appointments,   \* the appointments table: sequence of records, id = index
  subs,           \* the vip_subscriptions table: user -> rows [status, planType, startDate, endDate]
  now,            \* the wall clock (new Date())
  reqs,           \* the HTTP requests: slot -> request record
  nops,           \* number of requests received so far
  lastMut,        \* history: per appointment, the last successful handler write
  calc,           \* the calls of the pricing calculator: arguments and results
  services,       \* the services table: id -> [clinicId, price, vipDiscount, isActive]
  users,          \* the users table: id -> [isVIP, vipExpiry]
  clinic,         \* the row of the callers' clinic: openTime, closeTime, workingDays
  tzOffset,       \* the time zone of the server process, in hours east of UTC
  userRequestCounts, \* the limiter's Map: user -> [count, firstRequest]
  admitted        \* history: per user, the times of the requests the limiter let through

vars == <<appointments, subs, now, reqs, nops, lastMut, calc, services, users, clinic,
          tzOffset, userRequestCounts, admitted>>

---------------------------------------------------------------------------
(* Bounds of the model *)

MaxAppts == 2       \* appointment records ever created
MaxOps == 3         \* requests received in one run of interleaved requests
MaxSerialOps == 4   \* requests received in one run of requests served in turn
MaxNow == 2         \* last instant of the clock
NumReqs == 2        \* requests in flight at the same time
NumDays == 1        \* calendar days that can be requested
NumTimes == 2       \* times of day (HH:MM strings) that can be requested
MaxUpdateFields == 2 \* optional fields present in one update body
MaxCalls == 2       \* calls of the pricing calculator on the same arguments
MaxPricingOps == 3  \* requests served before the last subscription change or service edit

---------------------------------------------------------------------------
(* Values *)

Null == 0                       \* a NULL numeric column / an undefined field
NullText == "NULL"              \* a NULL text column
NoReason == ""                  \* req.body.reason undefined or empty (falsy)
ModuleLoadTime == 1             \* new Date() evaluated when the module is loaded
NoEntry == [count |-> 0, firstRequest |-> 0]  \* userRequestCounts.get(userId) is undefined

Days == 1..NumDays
Times == 1..NumTimes
ReqIds == 1..NumReqs

Statuses == {"SCHEDULED", "CONFIRMED", "IN_PROGRESS", "COMPLETED", "CANCELLED", "NO_SHOW"}
NonTerminal == {"SCHEDULED", "CONFIRMED", "IN_PROGRESS"}
Terminal == {"COMPLETED", "CANCELLED"}
UpdateStatusEnum == {"SCHEDULED", "CONFIRMED", "IN_PROGRESS", "COMPLETED", "CANCELLED"}

DefaultCancelReason == "No especificado"
Reasons == {NoReason, "agenda"} \* req.body.reason

\* The authenticated callers: req.userId, req.userRole, req.clinicId
Actors == { [userId |-> 1, role |-> "CLIENTE", clinicId |-> 1],
            [userId |-> 2, role |-> "CLIENTE", clinicId |-> 1],
            [userId |-> 3, role |-> "STAFF",   clinicId |-> 1] }
Clients == {a \in Actors : a.role = "CLIENTE"}
StaffActors == {a \in Actors : a.role \in {"ADMIN", "STAFF"}}
UserIds == {a.userId : a \in Actors}

\* The services table as seeded (not written by the appointment handlers)
Services == <<
  [clinicId |-> 1, price |-> 8500, vipDiscount |-> 20, isActive |-> TRUE, duration |-> 60],
  [clinicId |-> 1, price |-> 3000, vipDiscount |-> 0,  isActive |-> TRUE, duration |-> 30],
  [clinicId |-> 1, price |-> 5000, vipDiscount |-> 10, isActive |-> FALSE, duration |-> 60],
  [clinicId |-> 2, price |-> 4000, vipDiscount |-> 50, isActive |-> TRUE, duration |-> 45] >>
ServiceIds == DOMAIN Services

\* The clinics row with the defaults of its columns: "09:00", "18:00" and
\* "1,2,3,4,5", each time string as <<hours, minutes>> and the day list as a set
DefaultClinic == [openTime |-> <<9, 0>>, closeTime |-> <<18, 0>>,
                  workingDays |-> {1, 2, 3, 4, 5}]

\* new Date(`${date}T${time}:00`) as an instant of the clock
DateTime(day, tod) == (day - 1) * NumTimes + tod + 1

\* date.toISOString().split('T')[0] of a stored datetime
IsoDay(a) == a.day

EmptyData == [f \in {} |-> Null]
Merge(data, a) == [f \in DOMAIN a |-> IF f \in DOMAIN data THEN data[f] ELSE a[f]]

IdleReq == [op |-> "none", pc |-> "idle", res |-> "none", actor |-> Null, id |-> Null,
            day |-> Null, tod |-> Null, in |-> EmptyData, data |-> EmptyData, conc |-> {},
            notice |-> "none"]

InFlight == {q \in ReqIds : reqs[q].pc = "write"}

\* A request takes the lowest slot that holds no request in flight; the
\* response of the previous request of that slot is forgotten.
CanBegin(r) ==
  /\ nops < MaxOps
  /\ reqs[r].pc # "write"
  /\ \A q \in ReqIds : q < r => reqs[q].pc = "write"

\* res.status(code).json(...) before any write
Respond(op, res, actor, id) ==
  [op |-> op, pc |-> "done", res |-> res,
   actor |-> actor.userId, id |-> id,
   day |-> Null, tod |-> Null, in |-> EmptyData, data |-> EmptyData, conc |-> {},
   notice |-> "none"]

\* the handler reaches its awaited write with the payload `data`
Proceed(op, actor, id, in, data) ==
  [op |-> op, pc |-> "write", res |-> "none", actor |-> actor.userId, id |-> id,
   day |-> Null, tod |-> Null, in |-> in, data |-> data, conc |-> {},
   notice |-> "none"]

\* the slot (date, time) a create or a reschedule asks for
Target(q, day, tod) == [q EXCEPT !.day = day, !.tod = tod]

\* slot r starts the request q while the requests of InFlight are running;
\* the finished requests of the other slots no longer overlap slot r
Begin(r, q) ==
  [s \in ReqIds |->
     IF s = r THEN [q EXCEPT !.conc = InFlight \ {r}]
     ELSE IF reqs[s].pc = "done" THEN [reqs[s] EXCEPT !.conc = @ \ {r}]
     ELSE reqs[s]]

\* the response after the write
Finish(q, res, id, notice) ==
  [q EXCEPT !.pc = "done", !.res = res, !.id = id, !.data = EmptyData, !.notice = notice]

---------------------------------------------------------------------------
(* Helpers of the controller *)

\* a calculator that refuses a discount of 100 percent
calculateVIPPriceCapped(originalPrice, vipDiscount) ==
  IF vipDiscount <= 0 \/ vipDiscount >= 100
    THEN [finalPrice |-> originalPrice, vipDiscount |-> 0]
    ELSE [finalPrice |-> (originalPrice * (100 - vipDiscount)) \div 100,
          vipDiscount |-> vipDiscount]

\* Prices are whole multiples of 100, so that the quotient by 100 is exact:
\* originalPrice * (1 - vipDiscount / 100)
calculateVIPPrice(originalPrice, vipDiscount) ==
  IF vipDiscount <= 0
    THEN [finalPrice |-> originalPrice, vipDiscount |-> 0]
    ELSE [finalPrice |-> (originalPrice * (100 - vipDiscount)) \div 100,
          vipDiscount |-> vipDiscount]

\* calculateVIPPrice(service.price, isVIP ? service.vipDiscount : 0), line 178
Pricing(price, vipDiscount, isVIP) ==
  calculateVIPPrice(price, IF isVIP THEN vipDiscount ELSE 0)

\* the rows of vip_subscriptions of one user
subscriptionsOf(userId) == {subs[userId][i] : i \in DOMAIN subs[userId]}

\* VIP_SUBSCRIPTION_WHERE: { status: 'ACTIVE', endDate: { gte: new Date() } },
\* the Date being built once, when the module is loaded
VIP_SUBSCRIPTION_WHERE(s) == s.status = "ACTIVE" /\ s.endDate >= ModuleLoadTime

checkUserVIPStatus(userId) ==
  userId \in DOMAIN subs /\ \E s \in subscriptionsOf(userId) : VIP_SUBSCRIPTION_WHERE(s)

\* returns the service id, or Null when no record matches
validateServiceExists(serviceId, clinicId) ==
  IF /\ serviceId \in DOMAIN services
     /\ services[serviceId].clinicId = clinicId
     /\ services[serviceId].isActive
    THEN serviceId ELSE Null

checkTimeAvailability(day, tod, clinicId, excludeId) ==
  ~ \E i \in DOMAIN appointments :
       /\ appointments[i].day = day /\ appointments[i].dtod = tod
       /\ appointments[i].time = tod
       /\ appointments[i].clinicId = clinicId
       /\ appointments[i].status \in NonTerminal
       /\ (excludeId # Null => i # excludeId)

\* checkAvailability, lines 875-943: the answer of the single-slot query
checkAvailability(day, tod, serviceId, clinicId) ==
  IF day = Null \/ tod = Null \/ serviceId = Null
    THEN [code |-> "400", isAvailable |-> FALSE]
  ELSE IF validateServiceExists(serviceId, clinicId) = Null
    THEN [code |-> "404", isAvailable |-> FALSE]
  ELSE [code |-> "200", isAvailable |-> checkTimeAvailability(day, tod, clinicId, Null)]

\* the time strings a caller books, as <<hours, minutes>>: "09:30", "17:30", ...
TimeOfDay(tod) == <<IF tod = 1 THEN 9 ELSE 15 + tod, 30>>

\* new Date(date).getDay(): `date` is YYYY-MM-DD and is read as midnight UTC,
\* getDay() answers in the time zone of the process, which west of UTC is
\* still at the evening before. 0 is a Sunday; the first day of the calendar
\* is a Saturday.
getDay(day) == (day + 5 - (IF tzOffset < 0 THEN 1 ELSE 0)) % 7

slotInterval == 30

\* getAvailableSlots, lines 1021-1038: the while loop from (currentHour, currentMinute)
RECURSIVE SlotLoop(_, _, _, _, _)
SlotLoop(currentHour, currentMinute, close, bookedTimes, serviceDuration) ==
  IF currentHour < close[1] \/ (currentHour = close[1] /\ currentMinute < close[2])
    THEN LET timeSlot == <<currentHour, currentMinute>>
             slotEndMinutes == currentHour * 60 + currentMinute + serviceDuration
             closeMinutes == close[1] * 60 + close[2]
             rest == IF currentMinute + slotInterval >= 60
                       THEN SlotLoop(currentHour + 1, 0, close, bookedTimes, serviceDuration)
                       ELSE SlotLoop(currentHour, currentMinute + slotInterval, close,
                                     bookedTimes, serviceDuration)
         IN  IF timeSlot \notin bookedTimes /\ slotEndMinutes <= closeMinutes
               THEN <<timeSlot>> \o rest
               ELSE rest
    ELSE << >>

\* getAvailableSlots, lines 953-1052: the answer for the caller's clinic
SlotsOutcome(clinicId, dbOk, date, serviceId) ==
  IF date = Null \/ serviceId = Null THEN [code |-> "400", availableSlots |-> << >>]
  ELSE IF ~dbOk THEN [code |-> "500", availableSlots |-> << >>]
  ELSE IF validateServiceExists(serviceId, clinicId) = Null
    THEN [code |-> "404", availableSlots |-> << >>]
  ELSE LET service == services[serviceId]
           dayOfWeek == getDay(date)
           bookedTimes == { TimeOfDay(appointments[i].time) : i \in
                              { j \in DOMAIN appointments :
                                  /\ appointments[j].clinicId = clinicId
                                  /\ appointments[j].day = date
                                  /\ appointments[j].status \in NonTerminal } }
           serviceDuration == IF service.duration = 0 THEN 60 ELSE service.duration
       IN  IF (IF dayOfWeek = 0 THEN 7 ELSE dayOfWeek) \notin clinic.workingDays
             THEN [code |-> "200", availableSlots |-> << >>]
             ELSE [code |-> "200",
                   availableSlots |-> SlotLoop(clinic.openTime[1], clinic.openTime[2],
                                               clinic.closeTime, bookedTimes, serviceDuration)]

\* prisma.appointment.findUnique({ where: { id } }) finds a record
Exists(id) == id \in DOMAIN appointments

\* an update that refreshes the stored prices from the live service row
prismaUpdateRepriced(id, data) ==
  LET price == services[appointments[id].serviceId].price
  IN  [appointments EXCEPT ![id] =
         [Merge(data, @) EXCEPT !.originalPrice = price, !.finalPrice = price,
                                !.vipDiscount = 0]]

\* prisma.appointment.update({ where: { id }, data })
prismaUpdate(id, data) == [appointments EXCEPT ![id] = Merge(data, @)]

\* an ownership test that lets every caller through
NotOwnerNever(actor, id) == FALSE

\* userRole === 'CLIENTE' && appointment.userId !== userId
NotOwner(actor, id) == actor.role = "CLIENTE" /\ appointments[id].userId # actor.userId

\* the slot an appointment occupies: its calendar day and its time string
SlotOf(a) == [day |-> IsoDay(a), tod |-> a.time]

---------------------------------------------------------------------------
(* The handlers up to their write: the response, or the pending write      *)

\* create: lines 135-178
CreateOutcome(actor, valid, dbOk, day, tod, serviceId) ==
  LET service == validateServiceExists(serviceId, actor.clinicId)
      isAvailable == checkTimeAvailability(day, tod, actor.clinicId, Null)
      isVIP == checkUserVIPStatus(actor.userId)
      pricing == calculateVIPPrice(services[service].price,
                                   IF isVIP THEN services[service].vipDiscount ELSE 0)
  IN  IF ~valid THEN Respond("create", "400", actor, Null)
      ELSE IF ~dbOk THEN Respond("create", "500", actor, Null)
      ELSE IF service = Null THEN Respond("create", "404", actor, Null)
      ELSE IF ~isAvailable THEN Target(Respond("create", "409", actor, Null), day, tod)
      ELSE IF DateTime(day, tod) <= now THEN Respond("create", "400", actor, Null)
      ELSE Target(Proceed("create", actor, Null, EmptyData,
             [day |-> day, dtod |-> tod, time |-> tod, status |-> "SCHEDULED",
              userId |-> actor.userId, serviceId |-> serviceId,
              clinicId |-> actor.clinicId,
              originalPrice |-> services[service].price,
              finalPrice |-> pricing.finalPrice,
              vipDiscount |-> pricing.vipDiscount,
              cancelledAt |-> Null, cancelReason |-> NullText, completedAt |-> Null,
              createdAt |-> now]),
             day, tod)

\* cancel without the check of an appointment already cancelled
CancelOutcomeTwice(actor, dbOk, id, reason) ==
  IF ~dbOk THEN Respond("cancel", "500", actor, Null)
  ELSE IF ~Exists(id) THEN Respond("cancel", "404", actor, id)
  ELSE IF NotOwner(actor, id) THEN Respond("cancel", "403", actor, id)
  ELSE IF appointments[id].status = "COMPLETED" THEN Respond("cancel", "400", actor, id)
  ELSE Proceed("cancel", actor, id, [reason |-> reason],
         [status |-> "CANCELLED", cancelledAt |-> now,
          cancelReason |-> IF reason = NoReason THEN DefaultCancelReason ELSE reason])

\* cancel: lines 541-593
CancelOutcome(actor, dbOk, id, reason) ==
  IF ~dbOk THEN Respond("cancel", "500", actor, Null)
  ELSE IF ~Exists(id) THEN Respond("cancel", "404", actor, id)
  ELSE IF NotOwner(actor, id) THEN Respond("cancel", "403", actor, id)
  ELSE IF appointments[id].status = "CANCELLED" THEN Respond("cancel", "400", actor, id)
  ELSE IF appointments[id].status = "COMPLETED" THEN Respond("cancel", "400", actor, id)
  ELSE Proceed("cancel", actor, id, [reason |-> reason],
         [status |-> "CANCELLED", cancelledAt |-> now,
          cancelReason |-> IF reason = NoReason THEN DefaultCancelReason ELSE reason])

\* confirm without the check of the status
ConfirmOutcomeAnyStatus(actor, dbOk, id) ==
  IF ~dbOk THEN Respond("confirm", "500", actor, Null)
  ELSE IF ~Exists(id) THEN Respond("confirm", "404", actor, id)
  ELSE Proceed("confirm", actor, id, EmptyData, [status |-> "CONFIRMED"])

\* confirm: lines 1268-1293
ConfirmOutcome(actor, dbOk, id) ==
  IF ~dbOk THEN Respond("confirm", "500", actor, Null)
  ELSE IF ~Exists(id) THEN Respond("confirm", "404", actor, id)
  ELSE IF appointments[id].status # "SCHEDULED" THEN Respond("confirm", "400", actor, id)
  ELSE Proceed("confirm", actor, id, EmptyData, [status |-> "CONFIRMED"])

\* complete that also accepts an appointment not yet confirmed
CompleteOutcomeFromScheduled(actor, dbOk, id) ==
  IF ~dbOk THEN Respond("complete", "500", actor, Null)
  ELSE IF ~Exists(id) THEN Respond("complete", "404", actor, id)
  ELSE IF appointments[id].status \notin NonTerminal
    THEN Respond("complete", "400", actor, id)
  ELSE Proceed("complete", actor, id, EmptyData, [status |-> "COMPLETED", completedAt |-> now])

\* complete: lines 1320-1350
CompleteOutcome(actor, dbOk, id) ==
  IF ~dbOk THEN Respond("complete", "500", actor, Null)
  ELSE IF ~Exists(id) THEN Respond("complete", "404", actor, id)
  ELSE IF appointments[id].status \notin {"CONFIRMED", "IN_PROGRESS"}
    THEN Respond("complete", "400", actor, id)
  ELSE Proceed("complete", actor, id, EmptyData, [status |-> "COMPLETED", completedAt |-> now])

\* reschedule that keeps the status the appointment had
RescheduleOutcomeKeepStatus(actor, dbOk, id, newDate, newTime) ==
  IF newDate = Null \/ newTime = Null THEN Respond("reschedule", "400", actor, Null)
  ELSE IF ~dbOk THEN Respond("reschedule", "500", actor, Null)
  ELSE IF ~Exists(id) THEN Respond("reschedule", "404", actor, id)
  ELSE IF NotOwner(actor, id) THEN Respond("reschedule", "403", actor, id)
  ELSE IF DateTime(newDate, newTime) <= now
    THEN Target(Respond("reschedule", "400", actor, id), newDate, newTime)
  ELSE IF ~checkTimeAvailability(newDate, newTime, appointments[id].clinicId, id)
    THEN Target(Respond("reschedule", "409", actor, id), newDate, newTime)
  ELSE Target(Proceed("reschedule", actor, id, EmptyData,
                [day |-> newDate, dtod |-> newTime, time |-> newTime]),
              newDate, newTime)

\* reschedule: lines 780-843
RescheduleOutcome(actor, dbOk, id, newDate, newTime) ==
  IF newDate = Null \/ newTime = Null THEN Respond("reschedule", "400", actor, Null)
  ELSE IF ~dbOk THEN Respond("reschedule", "500", actor, Null)
  ELSE IF ~Exists(id) THEN Respond("reschedule", "404", actor, id)
  ELSE IF NotOwner(actor, id) THEN Respond("reschedule", "403", actor, id)
  ELSE IF DateTime(newDate, newTime) <= now
    THEN Target(Respond("reschedule", "400", actor, id), newDate, newTime)
  ELSE IF ~checkTimeAvailability(newDate, newTime, appointments[id].clinicId, id)
    THEN Target(Respond("reschedule", "409", actor, id), newDate, newTime)
  ELSE Target(Proceed("reschedule", actor, id, EmptyData,
                [day |-> newDate, dtod |-> newTime, time |-> newTime,
                 status |-> "SCHEDULED"]),
              newDate, newTime)

\* req.body after updateAppointmentSchema: every field is optional
Present(b) ==
  {f \in {"date", "time", "serviceId"} : b[f] # Null}
    \cup {f \in {"notes", "status"} : b[f] # NullText}

UpdateBodies ==
  { b \in [date : Days \cup {Null}, time : Times \cup {Null},
           serviceId : ServiceIds \cup {Null}, notes : {NullText, "n"},
           status : UpdateStatusEnum \cup {NullText}] :
      Cardinality(Present(b)) <= MaxUpdateFields }

EmptyBody == [date |-> Null, time |-> Null, serviceId |-> Null,
              notes |-> NullText, status |-> NullText]

\* an updateData that takes the status of the body from any caller
UpdateDataAnyRole(actor, id, b) ==
  LET existing == appointments[id]
      newDate == IF b.date # Null THEN b.date ELSE IsoDay(existing)
      newTime == IF b.time # Null THEN b.time ELSE existing.time
      moved == (b.date # Null \/ b.time # Null)
                 /\ (newDate # IsoDay(existing) \/ newTime # existing.time)
      changeService == b.serviceId # Null /\ b.serviceId # existing.serviceId
      service == validateServiceExists(b.serviceId, existing.clinicId)
      isVIP == checkUserVIPStatus(existing.userId)
      pricing == calculateVIPPrice(services[service].price,
                                   IF isVIP THEN services[service].vipDiscount ELSE 0)
      st == IF b.status # NullText THEN [status |-> b.status] ELSE EmptyData
      dt == IF b.date # Null THEN [day |-> b.date, dtod |-> newTime] ELSE EmptyData
      tm == IF b.time # Null THEN [time |-> b.time] ELSE EmptyData
      sv == IF changeService /\ service # Null
              THEN [serviceId |-> b.serviceId, originalPrice |-> services[service].price,
                    finalPrice |-> pricing.finalPrice, vipDiscount |-> pricing.vipDiscount]
              ELSE EmptyData
      keys == DOMAIN st \cup DOMAIN dt \cup DOMAIN tm \cup DOMAIN sv
  IN  [conflict |-> moved /\ ~checkTimeAvailability(newDate, newTime, existing.clinicId, id),
       noService |-> changeService /\ service = Null,
       touched |-> keys \cup (IF b.notes # NullText THEN {"notes"} ELSE {}),
       data |-> [f \in keys |-> IF f \in DOMAIN st THEN st[f]
                                ELSE IF f \in DOMAIN dt THEN dt[f]
                                ELSE IF f \in DOMAIN tm THEN tm[f] ELSE sv[f]]]

\* update, lines 446-511: updateData built field by field (the notes column
\* is not part of the model; `touched` are the keys of updateData), with the
\* two early returns `conflict` and `noService`
UpdateData(actor, id, b) ==
  LET existing == appointments[id]
      newDate == IF b.date # Null THEN b.date ELSE IsoDay(existing)
      newTime == IF b.time # Null THEN b.time ELSE existing.time
      moved == (b.date # Null \/ b.time # Null)
                 /\ (newDate # IsoDay(existing) \/ newTime # existing.time)
      changeService == b.serviceId # Null /\ b.serviceId # existing.serviceId
      service == validateServiceExists(b.serviceId, existing.clinicId)
      isVIP == checkUserVIPStatus(existing.userId)
      pricing == calculateVIPPrice(services[service].price,
                                   IF isVIP THEN services[service].vipDiscount ELSE 0)
      st == IF b.status # NullText /\ actor.role \in {"ADMIN", "STAFF"}
              THEN [status |-> b.status] ELSE EmptyData
      dt == IF b.date # Null THEN [day |-> b.date, dtod |-> newTime] ELSE EmptyData
      tm == IF b.time # Null THEN [time |-> b.time] ELSE EmptyData
      sv == IF changeService /\ service # Null
              THEN [serviceId |-> b.serviceId, originalPrice |-> services[service].price,
                    finalPrice |-> pricing.finalPrice, vipDiscount |-> pricing.vipDiscount]
              ELSE EmptyData
      keys == DOMAIN st \cup DOMAIN dt \cup DOMAIN tm \cup DOMAIN sv
  IN  [conflict |-> moved /\ ~checkTimeAvailability(newDate, newTime, existing.clinicId, id),
       noService |-> changeService /\ service = Null,
       touched |-> keys \cup (IF b.notes # NullText THEN {"notes"} ELSE {}),
       data |-> [f \in keys |-> IF f \in DOMAIN st THEN st[f]
                                ELSE IF f \in DOMAIN dt THEN dt[f]
                                ELSE IF f \in DOMAIN tm THEN tm[f] ELSE sv[f]]]

\* update: lines 406-513
UpdateOutcome(actor, valid, dbOk, id, b) ==
  LET u == UpdateData(actor, id, b)
  IN  IF ~valid THEN Respond("update", "400", actor, Null)
      ELSE IF ~dbOk THEN Respond("update", "500", actor, Null)
      ELSE IF ~Exists(id) THEN Respond("update", "404", actor, id)
      ELSE IF NotOwner(actor, id) THEN Respond("update", "403", actor, id)
      ELSE IF u.conflict THEN Respond("update", "409", actor, id)
      ELSE IF u.noService THEN Respond("update", "404", actor, id)
      ELSE IF u.touched = {} THEN Respond("update", "400", actor, id)
      ELSE Proceed("update", actor, id, EmptyData, u.data)

---------------------------------------------------------------------------
(* The requests that can arrive: every handler over its inputs.  A request *)
(* with an invalid body or one that meets a database failure answers the   *)
(* same whatever its other inputs are.                                     *)

ApptIds == 1..(MaxAppts + 1)     \* req.params.id; the last one names no record
AnActor == CHOOSE a \in Actors : a.role = "STAFF"

CreateOutcomes ==
  { CreateOutcome(AnActor, FALSE, TRUE, 1, 1, 1), CreateOutcome(AnActor, TRUE, FALSE, 1, 1, 1) }
    \cup { CreateOutcome(actor, TRUE, TRUE, day, tod, serviceId) :
             actor \in Clients, day \in Days, tod \in Times, serviceId \in ServiceIds }

CancelOutcomes ==
  { CancelOutcome(AnActor, FALSE, 1, NoReason) }
    \cup { CancelOutcome(actor, TRUE, id, reason) :
             actor \in Actors, id \in ApptIds, reason \in Reasons }

ConfirmOutcomes ==
  { ConfirmOutcome(actor, dbOk, id) :
      actor \in StaffActors, dbOk \in BOOLEAN, id \in ApptIds }

CompleteOutcomes ==
  { CompleteOutcome(actor, dbOk, id) :
      actor \in StaffActors, dbOk \in BOOLEAN, id \in ApptIds }

RescheduleOutcomes ==
  { RescheduleOutcome(AnActor, FALSE, 1, 1, 1), RescheduleOutcome(AnActor, TRUE, 1, Null, Null) }
    \cup { RescheduleOutcome(actor, TRUE, id, newDate, newTime) :
             actor \in Actors, id \in ApptIds, newDate \in Days, newTime \in Times }

UpdateOutcomes ==
  { UpdateOutcome(AnActor, FALSE, TRUE, 1, EmptyBody),
    UpdateOutcome(AnActor, TRUE, FALSE, 1, EmptyBody),
    UpdateOutcome(AnActor, TRUE, TRUE, MaxAppts + 1, EmptyBody) }
    \cup { UpdateOutcome(actor, TRUE, TRUE, id, b) :
             actor \in Actors, id \in DOMAIN appointments, b \in UpdateBodies }

---------------------------------------------------------------------------
(* The awaited write of a handler: prisma.appointment.create / update      *)

\* a cancel that removes the row instead of marking it
WrittenDeleting(q) ==
  IF q.op = "create" THEN Append(appointments, q.data)
  ELSE IF q.op = "cancel"
    THEN SubSeq(appointments, 1, q.id - 1)
           \o SubSeq(appointments, q.id + 1, Len(appointments))
  ELSE prismaUpdate(q.id, q.data)

\* the table after the write of the pending request q
Written(q) ==
  IF q.op = "create" THEN Append(appointments, q.data) ELSE prismaUpdate(q.id, q.data)

WrittenId(q) == IF q.op = "create" THEN Len(appointments) + 1 ELSE q.id


\* The notification sender (notificationService.sendAppointment...): started
\* after the write and not awaited; its promise resolves or rejects, and a
\* rejection never reaches the handler.
NotificationOutcomes == {"sent", "failed"}

\* the handlers that notify after their write
Notifies == {"create", "cancel", "reschedule", "confirm"}

sendNotification(q) == IF q.op \in Notifies THEN NotificationOutcomes ELSE {"none"}

\* a handler that awaits the sender without catching its rejection
ResponseCodeAwaited(q, notice) ==
  IF notice = "failed" THEN "500" ELSE IF q.op = "create" THEN "201" ELSE "200"

\* the status of the response after the write: the notification is not
\* awaited and its rejection is caught and logged
ResponseCode(q, notice) == IF q.op = "create" THEN "201" ELSE "200"

\* history: the last successful write on the appointment, for the claims
\* about a reschedule followed by a confirm
OtherMut == [op |-> "other", from |-> Null, to |-> Null]

Mutation(q) ==
  CASE q.op = "reschedule" ->
         [op |-> "reschedule", from |-> SlotOf(appointments[q.id]),
          to |-> [day |-> q.data.day, tod |-> q.data.time]]
    [] q.op = "confirm" /\ lastMut[q.id].op = "reschedule" ->
         [lastMut[q.id] EXCEPT !.op = "reschedule-confirm"]
    [] OTHER -> OtherMut

Recorded(q) ==
  IF q.op = "create" THEN Append(lastMut, OtherMut)
  ELSE [lastMut EXCEPT ![q.id] = Mutation(q)]

---------------------------------------------------------------------------
(* Initial state: an empty appointments table; user 1 holds a subscription *)
(* that ends during the run, the other users hold none.                    *)

NoCalc == [price |-> 0, vipDiscount |-> 0, isVIP |-> FALSE, out |-> << >>]

Init ==
  /\ appointments = << >>
  /\ subs = [u \in UserIds |->
               IF u = 1 THEN <<[status |-> "ACTIVE", planType |-> "monthly",
                                  startDate |-> ModuleLoadTime - 1,
                                  endDate |-> ModuleLoadTime]>>
                        ELSE << >>]
  /\ now = ModuleLoadTime
  /\ reqs = [r \in ReqIds |-> IdleReq]
  /\ nops = 0
  /\ lastMut = << >>
  /\ calc = NoCalc
  /\ services = Services
  /\ users = [u \in UserIds |->
                IF u = 1 THEN [isVIP |-> TRUE, vipExpiry |-> ModuleLoadTime]
                ELSE [isVIP |-> FALSE, vipExpiry |-> Null]]
  /\ clinic = DefaultClinic
  /\ tzOffset = 0
  /\ userRequestCounts = [u \in UserIds |-> NoEntry]
  /\ admitted = [u \in UserIds |-> << >>]

---------------------------------------------------------------------------
(* The clock *)

Tick ==
  /\ now < MaxNow
  /\ now' = now + 1
  /\ UNCHANGED <<appointments, subs, reqs, nops, lastMut, calc, services, users, clinic, tzOffset,
               userRequestCounts, admitted>>

---------------------------------------------------------------------------
(* Interleaved requests: the reads of a handler, then its write            *)

BeginStep(r, q) ==
  /\ reqs' = Begin(r, q)
  /\ nops' = nops + 1
  /\ UNCHANGED <<appointments, subs, now, lastMut, calc, services, users, clinic, tzOffset,
               userRequestCounts, admitted>>

WriteStep(r, op) ==
  /\ reqs[r].pc = "write" /\ reqs[r].op = op
  /\ \E dbOk \in BOOLEAN :
       IF dbOk
         THEN /\ appointments' = Written(reqs[r])
              /\ lastMut' = Recorded(reqs[r])
              /\ \E notice \in sendNotification(reqs[r]) :
                   reqs' = [reqs EXCEPT ![r] = Finish(@, ResponseCode(@, notice), WrittenId(@), notice)]
         ELSE /\ reqs' = [reqs EXCEPT ![r] = Finish(@, "500", @.id, "none")]
              /\ UNCHANGED <<appointments, lastMut>>
  /\ UNCHANGED <<subs, now, nops, calc, services, users, clinic, tzOffset,
               userRequestCounts, admitted>>

PendingCreates == {q \in ReqIds : reqs[q].pc = "write" /\ reqs[q].op = "create"}

CreateBegin(r) ==
  /\ CanBegin(r)
  /\ Len(appointments) + Cardinality(PendingCreates) < MaxAppts
  /\ \E q \in CreateOutcomes : BeginStep(r, q)

CreateWrite(r) == WriteStep(r, "create")

CancelBegin(r) == CanBegin(r) /\ \E q \in CancelOutcomes : BeginStep(r, q)

CancelWrite(r) == WriteStep(r, "cancel")

ConfirmBegin(r) == CanBegin(r) /\ \E q \in ConfirmOutcomes : BeginStep(r, q)

ConfirmWrite(r) == WriteStep(r, "confirm")

CompleteBegin(r) == CanBegin(r) /\ \E q \in CompleteOutcomes : BeginStep(r, q)

CompleteWrite(r) == WriteStep(r, "complete")

RescheduleBegin(r) == CanBegin(r) /\ \E q \in RescheduleOutcomes : BeginStep(r, q)

RescheduleWrite(r) == WriteStep(r, "reschedule")

UpdateBegin(r) == CanBegin(r) /\ \E q \in UpdateOutcomes : BeginStep(r, q)

UpdateWrite(r) == WriteStep(r, "update")

Next ==
  \/ Tick
  \/ \E r \in ReqIds : CreateBegin(r)
  \/ \E r \in ReqIds : CreateWrite(r)
  \/ \E r \in ReqIds : CancelBegin(r)
  \/ \E r \in ReqIds : CancelWrite(r)
  \/ \E r \in ReqIds : ConfirmBegin(r)
  \/ \E r \in ReqIds : ConfirmWrite(r)
  \/ \E r \in ReqIds : CompleteBegin(r)
  \/ \E r \in ReqIds : CompleteWrite(r)
  \/ \E r \in ReqIds : RescheduleBegin(r)
  \/ \E r \in ReqIds : RescheduleWrite(r)
  \/ \E r \in ReqIds : UpdateBegin(r)
  \/ \E r \in ReqIds : UpdateWrite(r)

\* any interleaving of the requests
Spec == Init /\ [][Next]_vars

---------------------------------------------------------------------------
(* Requests served one at a time: a handler from its reads to its response *)

CanServe == nops < MaxSerialOps

CanServePricing == nops < MaxPricingOps

Handle(q) ==
  /\ nops' = nops + 1
  /\ IF q.pc = "write"
       THEN \E dbOk \in BOOLEAN :
              IF dbOk
                THEN /\ appointments' = Written(q)
                     /\ lastMut' = Recorded(q)
                     /\ \E notice \in sendNotification(q) :
                          reqs' = [reqs EXCEPT ![1] = Finish(q, ResponseCode(q, notice), WrittenId(q), notice)]
                ELSE /\ reqs' = [reqs EXCEPT ![1] = Finish(q, "500", q.id, "none")]
                     /\ UNCHANGED <<appointments, lastMut>>
       ELSE /\ reqs' = [reqs EXCEPT ![1] = q]
            /\ UNCHANGED <<appointments, lastMut>>
  /\ UNCHANGED <<subs, now, calc, services, users, clinic, tzOffset,
               userRequestCounts, admitted>>

create ==
  /\ CanServe
  /\ Len(appointments) < MaxAppts
  /\ \E q \in CreateOutcomes : Handle(q)

cancel == CanServe /\ \E q \in CancelOutcomes : Handle(q)

confirm == CanServe /\ \E q \in ConfirmOutcomes : Handle(q)

complete == CanServe /\ \E q \in CompleteOutcomes : Handle(q)

reschedule == CanServe /\ \E q \in RescheduleOutcomes : Handle(q)

update == CanServe /\ \E q \in UpdateOutcomes : Handle(q)

NextSerial ==
  \/ Tick
  \/ create
  \/ cancel
  \/ confirm
  \/ complete
  \/ reschedule
  \/ update

SpecSerial == Init /\ [][NextSerial]_vars

---------------------------------------------------------------------------
(* The subscription handlers, the expiry sweep and the edit of a service *)

MonthLen == 1   \* endDate.setMonth(endDate.getMonth() + 1), in clock ticks
YearLen == 2    \* endDate.setFullYear(endDate.getFullYear() + 1), in clock ticks

PlanTypes == {"monthly", "annual"}

PlanLen(planType) == IF planType = "monthly" THEN MonthLen ELSE YearLen

\* a check that never finds the subscription in force
activeSubscriptionNotFound(userId) == {}

\* prisma.vipSubscription.findFirst({ userId, status: 'ACTIVE', endDate: { gte: new Date() } })
activeSubscription(userId) ==
  {i \in DOMAIN subs[userId] :
     subs[userId][i].status = "ACTIVE" /\ subs[userId][i].endDate >= now}

\* the awaited calls of a subscription handler that can reject
VipStages == {"none", "find", "create", "user"}

VipRespond(op, res, userId) ==
  [IdleReq EXCEPT !.op = op, !.pc = "done", !.res = res, !.actor = userId]

\* the answer of subscribe or reactivate: the plan asked and what became of
\* the payment ("none": simulatePayment was not called)
VipAnswer(op, res, userId, planType, payment) ==
  [VipRespond(op, res, userId) EXCEPT !.data = [planType |-> planType, payment |-> payment]]

\* prisma.vipSubscription.create({ userId, planType, price, startDate, endDate, status: 'ACTIVE' })
vipSubscriptionCreate(userId, planType, startDate, endDate) ==
  [subs EXCEPT ![userId] =
     Append(@, [status |-> "ACTIVE", planType |-> planType,
                startDate |-> startDate, endDate |-> endDate])]

\* prisma.user.update({ isVIP: true, vipExpiry: endDate })
userUpdateVIP(userId, endDate) ==
  [users EXCEPT ![userId] = [isVIP |-> TRUE, vipExpiry |-> endDate]]

\* subscribe storing the subscription whatever the payment answers
SubscribeWritesUnpaid(userId, planType, startDate, paymentSuccess, fail, notice) ==
  [subs |-> vipSubscriptionCreate(userId, planType, startDate,
                                 startDate + PlanLen(planType)),
   users |-> userUpdateVIP(userId, startDate + PlanLen(planType)),
   answer |-> VipAnswer("vipSubscribe", IF paymentSuccess THEN "201" ELSE "400", userId,
                        planType, IF paymentSuccess THEN "paid" ELSE "failed")]

\* subscribe after the check of a subscription in force: the payment, the
\* two writes, the awaited welcome message and the answer
SubscribeWrites(userId, planType, startDate, paymentSuccess, fail, notice) ==
  LET endDate == startDate + PlanLen(planType)
      code == IF ~paymentSuccess THEN "400"
              ELSE IF fail # "none" THEN "500"
              ELSE IF notice = "failed" THEN "500"
              ELSE "201"
  IN  [subs |-> IF paymentSuccess /\ fail # "create"
                  THEN vipSubscriptionCreate(userId, planType, startDate, endDate) ELSE subs,
       users |-> IF paymentSuccess /\ fail = "none"
                   THEN userUpdateVIP(userId, endDate) ELSE users,
       answer |-> [VipAnswer("vipSubscribe", code, userId, planType,
                           IF paymentSuccess THEN "paid" ELSE "failed") EXCEPT
                     !.notice = IF paymentSuccess /\ fail = "none" THEN notice ELSE "none"]]

\* POST /vip/subscribe
vipSubscribe ==
  /\ CanServePricing
  /\ \E actor \in Clients, valid, paymentSuccess \in BOOLEAN, planType \in PlanTypes,
        fail \in VipStages, notice \in NotificationOutcomes :
       LET userId == actor.userId
           w == SubscribeWrites(userId, planType, now, paymentSuccess, fail, notice)
       IN  IF ~valid
             THEN /\ reqs' = [reqs EXCEPT ![1] =
                                VipAnswer("vipSubscribe", "400", userId, planType, "none")]
                  /\ UNCHANGED <<subs, users>>
             ELSE IF fail = "find"
               THEN /\ reqs' = [reqs EXCEPT ![1] =
                                  VipAnswer("vipSubscribe", "500", userId, planType, "none")]
                    /\ UNCHANGED <<subs, users>>
               ELSE IF activeSubscription(userId) # {}
                 THEN /\ reqs' = [reqs EXCEPT ![1] =
                                    VipAnswer("vipSubscribe", "409", userId, planType, "none")]
                      /\ UNCHANGED <<subs, users>>
                 ELSE /\ subs' = w.subs
                      /\ users' = w.users
                      /\ reqs' = [reqs EXCEPT ![1] = w.answer]
  /\ nops' = nops + 1
  /\ UNCHANGED <<appointments, now, lastMut, calc, services, clinic, tzOffset,
               userRequestCounts, admitted>>

\* a cancel that ends the subscription as the sweep does
cancelledSubscriptionExpired(userId, i) ==
  [subs EXCEPT ![userId][i].status = "EXPIRED", ![userId][i].endDate = now]

\* prisma.vipSubscription.update({ data: { status: 'CANCELLED', cancelledAt, cancelReason } })
cancelledSubscription(userId, i) ==
  [subs EXCEPT ![userId][i].status = "CANCELLED"]

\* POST /vip/cancel: the subscription keeps its dates, the user row is not
\* written, the cancellation message is awaited
vipCancel ==
  /\ CanServePricing
  /\ \E actor \in Clients, fail \in {"none", "find", "update"},
        notice \in NotificationOutcomes :
       LET userId == actor.userId
           found == activeSubscription(userId)
       IN  IF fail = "find"
             THEN /\ reqs' = [reqs EXCEPT ![1] = VipRespond("vipCancel", "500", userId)]
                  /\ UNCHANGED subs
             ELSE IF found = {}
               THEN /\ reqs' = [reqs EXCEPT ![1] = VipRespond("vipCancel", "404", userId)]
                    /\ UNCHANGED subs
               ELSE IF fail = "update"
                 THEN /\ reqs' = [reqs EXCEPT ![1] = VipRespond("vipCancel", "500", userId)]
                      /\ UNCHANGED subs
                 ELSE \E i \in found :
                        /\ subs' = cancelledSubscription(userId, i)
                        /\ reqs' = [reqs EXCEPT ![1] =
                                      [VipRespond("vipCancel",
                                                  IF notice = "failed" THEN "500" ELSE "200",
                                                  userId) EXCEPT !.notice = notice]]
  /\ nops' = nops + 1
  /\ UNCHANGED <<appointments, now, lastMut, calc, services, users, clinic, tzOffset,
               userRequestCounts, admitted>>

\* the subscriptions the sweep finds: ACTIVE and ended before now
expiredSubscriptions ==
  UNION {{<<u, i>> : i \in {j \in DOMAIN subs[u] :
                                subs[u][j].status = "ACTIVE" /\ subs[u][j].endDate < now}} :
         u \in UserIds}

\* what the body of the sweep's loop does for one subscription: all of it,
\* a rejected subscription update, a rejected read or user update after it,
\* or a rejected expiry message after both writes
SweepOutcomes == {"ok", "failSub", "failUser", "failNotice"}

\* the subscriptions the loop has set to EXPIRED
SweptSubs(outcome) ==
  [u \in UserIds |->
     [i \in DOMAIN subs[u] |->
        IF <<u, i>> \in expiredSubscriptions /\ outcome[<<u, i>>] # "failSub"
          THEN [subs[u][i] EXCEPT !.status = "EXPIRED"]
          ELSE subs[u][i]]]

\* a loop that clears the flag without looking for another subscription
SweptUsersCleared(outcome) ==
  [u \in UserIds |->
     IF \E k \in expiredSubscriptions : k[1] = u /\ outcome[k] \in {"ok", "failNotice"}
       THEN [isVIP |-> FALSE, vipExpiry |-> Null]
       ELSE users[u]]

\* the loop clears the flag of a user who has no ACTIVE subscription ending
\* at or after the sweep's now
SweptUsers(outcome) ==
  [u \in UserIds |->
     IF /\ \E k \in expiredSubscriptions :
             k[1] = u /\ outcome[k] \in {"ok", "failNotice"}
        /\ activeSubscription(u) = {}
       THEN [isVIP |-> FALSE, vipExpiry |-> Null]
       ELSE users[u]]

\* cron: updateExpiredVIPStatus, the log line it ends with kept as its answer
updateExpiredVIPStatus ==
  /\ expiredSubscriptions # {}
  /\ \E outcome \in [expiredSubscriptions -> SweepOutcomes] :
       /\ \A k \in expiredSubscriptions :
            outcome[k] = "failNotice" => activeSubscription(k[1]) = {}
       /\ subs' = SweptSubs(outcome)
       /\ users' = SweptUsers(outcome)
       /\ reqs' = [reqs EXCEPT ![1] =
                     VipRespond("updateExpiredVIPStatus",
                                IF \A k \in expiredSubscriptions : outcome[k] = "ok"
                                  THEN "done" ELSE "error",
                                Null)]
  /\ UNCHANGED <<appointments, now, nops, lastMut, calc, services, clinic, tzOffset,
               userRequestCounts, admitted>>

\* prisma.appointment.aggregate({ where, _sum: { vipDiscount: true } }) over
\* the appointments `ids`; the sum of no row is null, which getStatus reads as 0
RECURSIVE SumVipDiscount(_)
SumVipDiscount(ids) ==
  IF ids = {} THEN 0
  ELSE LET i == CHOOSE j \in ids : TRUE
       IN  appointments[i].vipDiscount + SumVipDiscount(ids \ {i})

\* GET /vip/status: the subscription in force with the latest endDate, the
\* flag derived from it and the savings since its startDate; stats is null
\* for a user without such a subscription
getStatus(userId) ==
  LET found == activeSubscription(userId)
      isVIP == found # {}
      top == CHOOSE i \in found :
               \A j \in found : subs[userId][j].endDate <= subs[userId][i].endDate
      subscriptionStart == subs[userId][top].startDate
      counted == {i \in DOMAIN appointments :
                    /\ appointments[i].userId = userId
                    /\ appointments[i].status = "COMPLETED"
                    /\ appointments[i].vipDiscount > 0
                    /\ appointments[i].createdAt >= subscriptionStart}
  IN  IF isVIP
        THEN [isVIP |-> TRUE, totalSavings |-> SumVipDiscount(counted),
              memberSince |-> subscriptionStart]
        ELSE [isVIP |-> FALSE, totalSavings |-> Null, memberSince |-> Null]

\* the services an administrator edits and the values the edit stores
EditedServices == {1, 2}
ServiceEdits == { [price |-> 8500, vipDiscount |-> 20],
                  [price |-> 3000, vipDiscount |-> 0] }

\* an administrator changes the price and the discount of a service
editService ==
  /\ CanServePricing
  /\ \E s \in EditedServices, e \in ServiceEdits :
       /\ [price |-> services[s].price, vipDiscount |-> services[s].vipDiscount] # e
       /\ services' = [services EXCEPT ![s].price = e.price, ![s].vipDiscount = e.vipDiscount]
  /\ nops' = nops + 1
  /\ reqs' = [reqs EXCEPT ![1] = VipRespond("editService", "200", AnActor.userId)]
  /\ UNCHANGED <<appointments, subs, now, lastMut, calc, users, clinic, tzOffset,
               userRequestCounts, admitted>>

NextPricing ==
  \/ Tick
  \/ create
  \/ cancel
  \/ confirm
  \/ complete
  \/ reschedule
  \/ vipSubscribe
  \/ vipCancel
  \/ updateExpiredVIPStatus
  \/ editService

\* booking and the four status handlers among subscription changes, expiry
\* sweeps and service edits, one request at a time
SpecPricing == Init /\ [][NextPricing]_vars

---------------------------------------------------------------------------
(* Subscribe and reactivate interleaved: the read of the subscription in   *)
(* force, then, after the awaited payment, the insert and the user update  *)

VipInserts == {"vipSubscribe", "vipReactivate"}

\* POST /vip/reactivate after its check: the two writes and the answer;
\* there is no payment and no message
ReactivateWrites(userId, planType, startDate, fail) ==
  LET endDate == startDate + PlanLen(planType)
  IN  [subs |-> IF fail # "create"
                  THEN vipSubscriptionCreate(userId, planType, startDate, endDate) ELSE subs,
       users |-> IF fail = "none" THEN userUpdateVIP(userId, endDate) ELSE users,
       answer |-> VipAnswer("vipReactivate", IF fail = "none" THEN "200" ELSE "500",
                            userId, planType, "none")]

\* subscribe or reactivate down to `const startDate = new Date()`: the
\* answer, or the request waiting for its payment and its writes
VipChecked(op, userId, valid, planType, fail) ==
  IF op = "vipSubscribe" /\ ~valid THEN VipAnswer(op, "400", userId, planType, "none")
  ELSE IF fail = "find" THEN VipAnswer(op, "500", userId, planType, "none")
  ELSE IF activeSubscription(userId) # {} THEN VipAnswer(op, "409", userId, planType, "none")
  ELSE [VipAnswer(op, "none", userId, planType, "none") EXCEPT
          !.pc = "write", !.in = [startDate |-> now]]

VipCheck(r) ==
  /\ CanBegin(r)
  /\ \E op \in VipInserts, actor \in Clients, valid \in BOOLEAN,
        planType \in PlanTypes, fail \in {"none", "find"} :
       reqs' = Begin(r, VipChecked(op, actor.userId, valid, planType, fail))
  /\ nops' = nops + 1
  /\ UNCHANGED <<appointments, subs, now, lastMut, calc, services, users, clinic, tzOffset,
               userRequestCounts, admitted>>

VipInsert(r) ==
  /\ reqs[r].pc = "write" /\ reqs[r].op \in VipInserts
  /\ \E paymentSuccess \in BOOLEAN, fail \in VipStages \ {"find"},
        notice \in NotificationOutcomes :
       LET q == reqs[r]
           w == IF q.op = "vipSubscribe"
                  THEN SubscribeWrites(q.actor, q.data.planType, q.in.startDate,
                                       paymentSuccess, fail, notice)
                  ELSE ReactivateWrites(q.actor, q.data.planType, q.in.startDate, fail)
       IN  /\ subs' = w.subs
           /\ users' = w.users
           /\ reqs' = [reqs EXCEPT ![r] = [w.answer EXCEPT !.conc = q.conc]]
  /\ UNCHANGED <<appointments, now, nops, lastMut, calc, services, clinic, tzOffset,
               userRequestCounts, admitted>>

NextVip ==
  \/ Tick
  \/ \E r \in ReqIds : VipCheck(r)
  \/ \E r \in ReqIds : VipInsert(r)

SpecVip == Init /\ [][NextVip]_vars

---------------------------------------------------------------------------
(* The handlers that create or lengthen a subscription, one request at a   *)
(* time: subscribe, reactivate, updatePlan and the administrator's extend  *)

\* POST /vip/reactivate
vipReactivate ==
  /\ CanServePricing
  /\ \E actor \in Clients, planType \in PlanTypes, fail \in VipStages :
       LET userId == actor.userId
           q == VipChecked("vipReactivate", userId, TRUE, planType,
                           IF fail = "find" THEN "find" ELSE "none")
           w == ReactivateWrites(userId, planType, now, fail)
       IN  IF q.pc = "write"
             THEN /\ subs' = w.subs
                  /\ users' = w.users
                  /\ reqs' = [reqs EXCEPT ![1] = w.answer]
             ELSE /\ reqs' = [reqs EXCEPT ![1] = q]
                  /\ UNCHANGED <<subs, users>>
  /\ nops' = nops + 1
  /\ UNCHANGED <<appointments, now, lastMut, calc, services, clinic, tzOffset,
               userRequestCounts, admitted>>

\* POST /vip/update: the subscription in force takes the other plan, a new
\* endDate counted from now and the price of the plan; nothing is charged
\* and the user row is not written
vipUpdatePlan ==
  /\ CanServePricing
  /\ \E actor \in Clients, valid \in BOOLEAN, planType \in PlanTypes,
        fail \in {"none", "find", "update"} :
       LET userId == actor.userId
           found == activeSubscription(userId)
           answer(code) == VipAnswer("vipUpdatePlan", code, userId, planType, "none")
       IN  IF ~valid
             THEN /\ reqs' = [reqs EXCEPT ![1] = answer("400")]
                  /\ UNCHANGED subs
             ELSE IF fail = "find"
               THEN /\ reqs' = [reqs EXCEPT ![1] = answer("500")]
                    /\ UNCHANGED subs
               ELSE IF found = {}
                 THEN /\ reqs' = [reqs EXCEPT ![1] = answer("404")]
                      /\ UNCHANGED subs
                 ELSE \E i \in found :
                        IF subs[userId][i].planType = planType
                          THEN /\ reqs' = [reqs EXCEPT ![1] = answer("400")]
                               /\ UNCHANGED subs
                          ELSE IF fail = "update"
                            THEN /\ reqs' = [reqs EXCEPT ![1] = answer("500")]
                                 /\ UNCHANGED subs
                            ELSE /\ subs' = [subs EXCEPT
                                               ![userId][i].planType = planType,
                                               ![userId][i].endDate = now + PlanLen(planType)]
                                 /\ reqs' = [reqs EXCEPT ![1] = answer("200")]
  /\ nops' = nops + 1
  /\ UNCHANGED <<appointments, now, lastMut, calc, services, users, clinic, tzOffset,
               userRequestCounts, admitted>>

\* req.body.months of an extension
ExtendMonths == {0, 1}

\* POST /vip/extend/:userId, by an administrator: the subscription in force
\* ends `months` later and the user's vipExpiry follows
vipExtend ==
  /\ CanServePricing
  /\ \E userId \in {a.userId : a \in Clients}, months \in ExtendMonths,
        fail \in {"none", "find", "update", "user"} :
       LET found == activeSubscription(userId)
           answer(code) == VipRespond("vipExtend", code, userId)
       IN  IF months <= 0
             THEN /\ reqs' = [reqs EXCEPT ![1] = answer("400")]
                  /\ UNCHANGED <<subs, users>>
             ELSE IF fail = "find"
               THEN /\ reqs' = [reqs EXCEPT ![1] = answer("500")]
                    /\ UNCHANGED <<subs, users>>
               ELSE IF found = {}
                 THEN /\ reqs' = [reqs EXCEPT ![1] = answer("404")]
                      /\ UNCHANGED <<subs, users>>
                 ELSE IF fail = "update"
                   THEN /\ reqs' = [reqs EXCEPT ![1] = answer("500")]
                        /\ UNCHANGED <<subs, users>>
                   ELSE \E i \in found :
                          LET newEndDate == subs[userId][i].endDate + months * MonthLen
                          IN  /\ subs' = [subs EXCEPT ![userId][i].endDate = newEndDate]
                              /\ users' = IF fail = "user" THEN users
                                          ELSE [users EXCEPT ![userId].vipExpiry = newEndDate]
                              /\ reqs' = [reqs EXCEPT ![1] =
                                            answer(IF fail = "user" THEN "500" ELSE "200")]
  /\ nops' = nops + 1
  /\ UNCHANGED <<appointments, now, lastMut, calc, services, clinic, tzOffset,
               userRequestCounts, admitted>>

NextPlans ==
  \/ Tick
  \/ vipSubscribe
  \/ vipReactivate
  \/ vipUpdatePlan
  \/ vipExtend

SpecPlans == Init /\ [][NextPlans]_vars

---------------------------------------------------------------------------
(* The subscriptions under the scheduled sweep: the cron job runs again    *)
(* and again, and the clock goes on                                        *)

NextSweep ==
  \/ Tick
  \/ vipSubscribe
  \/ vipCancel
  \/ updateExpiredVIPStatus

SpecSweep ==
  /\ Init
  /\ [][NextSweep]_vars
  /\ WF_vars(Tick)
  /\ WF_vars(updateExpiredVIPStatus)

---------------------------------------------------------------------------
(* A member of the staff of another clinic: the appointments are booked by *)
(* the clients of clinic 1, the requests on them come from clinic 2        *)

\* req.userId, req.userRole, req.clinicId of that caller
OtherClinicStaff == [userId |-> 4, role |-> "STAFF", clinicId |-> 2]

cancelFromOtherClinic ==
  /\ CanServe
  /\ \E id \in ApptIds, reason \in Reasons :
       Handle(CancelOutcome(OtherClinicStaff, TRUE, id, reason))

confirmFromOtherClinic ==
  /\ CanServe
  /\ \E id \in ApptIds : Handle(ConfirmOutcome(OtherClinicStaff, TRUE, id))

completeFromOtherClinic ==
  /\ CanServe
  /\ \E id \in ApptIds : Handle(CompleteOutcome(OtherClinicStaff, TRUE, id))

rescheduleFromOtherClinic ==
  /\ CanServe
  /\ \E id \in ApptIds, newDate \in Days, newTime \in Times :
       Handle(RescheduleOutcome(OtherClinicStaff, TRUE, id, newDate, newTime))

updateFromOtherClinic ==
  /\ CanServe
  /\ \E id \in DOMAIN appointments, b \in UpdateBodies :
       Handle(UpdateOutcome(OtherClinicStaff, TRUE, TRUE, id, b))

NextClinics ==
  \/ Tick
  \/ create
  \/ cancelFromOtherClinic
  \/ confirmFromOtherClinic
  \/ completeFromOtherClinic
  \/ rescheduleFromOtherClinic
  \/ updateFromOtherClinic

SpecClinics == Init /\ [][NextClinics]_vars

---------------------------------------------------------------------------
(* The slots of a day, asked of clinics of several opening hours *)

\* clinics rows: the defaults; open on Saturdays too ("1,2,3,4,5,6"); and open
\* on Saturdays from "09:15" to "10:30"
ClinicRows ==
  { DefaultClinic,
    [DefaultClinic EXCEPT !.workingDays = {1, 2, 3, 4, 5, 6}],
    [openTime |-> <<9, 15>>, closeTime |-> <<10, 30>>, workingDays |-> {1, 2, 3, 4, 5, 6}] }

\* process.env.TZ: UTC, or America/Argentina/Buenos_Aires (the default of the
\* clinics' timezone column), three hours west
TimeZones == {0, -3}

\* every clinic row on a server in UTC, and the default row on a server in
\* the clinic's own time zone
Deployments ==
  {<<c, 0>> : c \in ClinicRows} \cup {<<DefaultClinic, z>> : z \in TimeZones}

InitSlots ==
  /\ appointments = << >>
  /\ subs = [u \in UserIds |->
               IF u = 1 THEN <<[status |-> "ACTIVE", planType |-> "monthly",
                                  startDate |-> ModuleLoadTime - 1,
                                  endDate |-> ModuleLoadTime]>>
                        ELSE << >>]
  /\ now = ModuleLoadTime
  /\ reqs = [r \in ReqIds |-> IdleReq]
  /\ nops = 0
  /\ lastMut = << >>
  /\ calc = NoCalc
  /\ services = Services
  /\ users = [u \in UserIds |->
                IF u = 1 THEN [isVIP |-> TRUE, vipExpiry |-> ModuleLoadTime]
                ELSE [isVIP |-> FALSE, vipExpiry |-> Null]]
  /\ \E d \in Deployments : clinic = d[1] /\ tzOffset = d[2]
  /\ userRequestCounts = [u \in UserIds |-> NoEntry]
  /\ admitted = [u \in UserIds |-> << >>]

\* GET /appointments/available?date=&serviceId=
getAvailableSlots ==
  /\ CanServe
  /\ \E actor \in Actors, dbOk \in BOOLEAN, date \in Days \cup {Null},
        serviceId \in ServiceIds \cup {Null} :
       LET out == SlotsOutcome(actor.clinicId, dbOk, date, serviceId)
       IN  reqs' = [reqs EXCEPT ![1] =
                      [Respond("getAvailableSlots", out.code, actor, Null) EXCEPT
                         !.day = date,
                         !.in = [serviceId |-> serviceId, dbOk |-> dbOk],
                         !.data = [availableSlots |-> out.availableSlots]]]
  /\ nops' = nops + 1
  /\ UNCHANGED <<appointments, subs, now, lastMut, calc, services, users, clinic, tzOffset,
               userRequestCounts, admitted>>

NextSlots ==
  \/ Tick
  \/ create
  \/ cancel
  \/ confirm
  \/ complete
  \/ reschedule
  \/ getAvailableSlots

\* bookings and status changes among slot queries, one request at a time
SpecSlots == InitSlots /\ [][NextSlots]_vars

---------------------------------------------------------------------------
(* Updates whose request keeps the date, the time and the status it asked *)

\* req.body of an update next to its outcome
Asked(q, b) ==
  [q EXCEPT !.day = b.date, !.tod = b.time, !.in = [status |-> b.status]]

AskedOutcomes ==
  { UpdateOutcome(AnActor, FALSE, TRUE, 1, EmptyBody),
    UpdateOutcome(AnActor, TRUE, FALSE, 1, EmptyBody),
    UpdateOutcome(AnActor, TRUE, TRUE, MaxAppts + 1, EmptyBody) }
    \cup { Asked(UpdateOutcome(actor, TRUE, TRUE, id, b), b) :
             actor \in Actors, id \in DOMAIN appointments, b \in UpdateBodies }

\* PUT /appointments/:id
updateAsked == CanServe /\ \E q \in AskedOutcomes : Handle(q)

NextUpdate ==
  \/ create
  \/ cancel
  \/ reschedule
  \/ updateAsked

\* bookings, cancellations, reschedules and updates, one request at a time
SpecUpdate == Init /\ [][NextUpdate]_vars

---------------------------------------------------------------------------
(* The pricing calculator applied to arguments of any kind *)

PriceInputs == {0, 100, 3000, 8500}
DiscountInputs == 0..100

InitCalc ==
  /\ appointments = << >>
  /\ subs = [u \in UserIds |-> << >>]
  /\ now = ModuleLoadTime
  /\ reqs = [r \in ReqIds |-> IdleReq]
  /\ nops = 0
  /\ lastMut = << >>
  /\ calc \in [price : PriceInputs, vipDiscount : DiscountInputs, isVIP : BOOLEAN,
               out : {<< >>}]
  /\ services = Services
  /\ users = [u \in UserIds |-> [isVIP |-> FALSE, vipExpiry |-> Null]]
  /\ clinic = DefaultClinic
  /\ tzOffset = 0
  /\ userRequestCounts = [u \in UserIds |-> NoEntry]
  /\ admitted = [u \in UserIds |-> << >>]

Calculate ==
  /\ Len(calc.out) < MaxCalls
  /\ calc' = [calc EXCEPT !.out = Append(@, Pricing(calc.price, calc.vipDiscount, calc.isVIP))]
  /\ UNCHANGED <<appointments, subs, now, reqs, nops, lastMut, services, users, clinic, tzOffset,
               userRequestCounts, admitted>>

NextCalc == Calculate

SpecCalc == InitCalc /\ [][NextCalc]_vars

---------------------------------------------------------------------------
(* Properties *)

\* the appointment occupies a slot: its status is not terminal
Active(a) == a.status \in NonTerminal

\* two records name the same (clinicId, date, time)
SameSlot(a, b) ==
  a.clinicId = b.clinicId /\ a.day = b.day /\ a.dtod = b.dtod /\ a.time = b.time

\* a request `op` has just been served and answered with reqs'[1]
Served(op) ==
  /\ nops' = nops + 1
  /\ reqs'[1].pc = "done"
  /\ reqs'[1].op = op

\* the actor of the request q may act on the appointment id
Authorised(q, id) ==
  \A actor \in Actors : actor.userId = q.actor => ~NotOwner(actor, id)

\* the records other than id are left as they were, and so are the fields
\* of id outside `fields`
OnlyChanges(id, fields) ==
  /\ DOMAIN appointments' = DOMAIN appointments
  /\ \A i \in DOMAIN appointments :
       \A f \in DOMAIN appointments[i] :
         (i # id \/ f \notin fields) => appointments'[i][f] = appointments[i][f]

\* C1: under any interleaving of create, update and reschedule requests, at
\* most one appointment in status SCHEDULED, CONFIRMED or IN_PROGRESS exists
\* for a given (clinicId, date, time).
C1_OneActivePerSlot ==
  \A i, j \in DOMAIN appointments :
    (i # j /\ Active(appointments[i]) /\ Active(appointments[j]))
      => ~SameSlot(appointments[i], appointments[j])

\* two create requests that overlapped in time, asked for the same slot and
\* met no other error than a taken slot
RacingCreates(r, s) ==
  /\ r # s
  /\ reqs[r].op = "create" /\ reqs[s].op = "create"
  /\ reqs[r].pc = "done" /\ reqs[s].pc = "done"
  /\ (s \in reqs[r].conc \/ r \in reqs[s].conc)
  /\ reqs[r].day # Null /\ reqs[r].day = reqs[s].day /\ reqs[r].tod = reqs[s].tod
  /\ reqs[r].res \in {"201", "409"} /\ reqs[s].res \in {"201", "409"}

\* C2: of two concurrent, otherwise valid create requests for the same
\* clinic, date and time, exactly one is answered 201 and persists its
\* SCHEDULED appointment; the other is answered 409 (Conflict).
C2_ConcurrentCreatesOneWins ==
  \A r, s \in ReqIds :
    RacingCreates(r, s) =>
      /\ (reqs[r].res = "201") # (reqs[s].res = "201")
      /\ Cardinality({i \in DOMAIN appointments :
                        /\ appointments[i].day = reqs[r].day
                        /\ appointments[i].time = reqs[r].tod
                        /\ appointments[i].status = "SCHEDULED"}) = 1

\* C3: once an appointment is COMPLETED or CANCELLED, no later operation
\* (confirm, complete, cancel, reschedule, update, by any role) changes its
\* status.
C3_TerminalStatusIsFinal ==
  [][\A i \in DOMAIN appointments :
       appointments[i].status \in Terminal
         => appointments'[i].status = appointments[i].status]_vars

\* C4: cancel on an appointment already CANCELLED or COMPLETED answers an
\* error and leaves the record as it was; on any other existing appointment,
\* asked by its owner or by staff, it sets CANCELLED, stamps cancelledAt and
\* stores the reason given, or the default one when none is given.
C4_Cancel ==
  [][Served("cancel") =>
       LET q == reqs'[1]
       IN  /\ (Exists(q.id) /\ appointments[q.id].status \in Terminal)
                => q.res \in {"400", "403"} /\ appointments' = appointments
           /\ (Exists(q.id) /\ appointments[q.id].status \notin Terminal
                 /\ Authorised(q, q.id))
                => \/ q.res = "500" /\ appointments' = appointments
                   \/ /\ q.res = "200"
                      /\ appointments'[q.id].status = "CANCELLED"
                      /\ appointments'[q.id].cancelledAt = now
                      /\ appointments'[q.id].cancelReason =
                           (IF q.in.reason = NoReason THEN DefaultCancelReason
                            ELSE q.in.reason)
                      /\ OnlyChanges(q.id, {"status", "cancelledAt", "cancelReason"})
           /\ q.res # "200" => appointments' = appointments]_vars

\* a second cancel of an appointment cancelled without a reason was refused
C4_Witness ==
  /\ reqs[1].op = "cancel" /\ reqs[1].pc = "done" /\ reqs[1].res = "400"
  /\ Exists(reqs[1].id)
  /\ appointments[reqs[1].id].status = "CANCELLED"
  /\ appointments[reqs[1].id].cancelReason = DefaultCancelReason
  /\ appointments[reqs[1].id].cancelledAt < now

\* C5: confirm succeeds only on an appointment in SCHEDULED, which becomes
\* CONFIRMED; from any other status it answers a validation error and
\* leaves the record as it was.
C5_Confirm ==
  [][Served("confirm") =>
       LET q == reqs'[1]
       IN  /\ (Exists(q.id) /\ appointments[q.id].status # "SCHEDULED")
                => q.res = "400" /\ appointments' = appointments
           /\ (Exists(q.id) /\ appointments[q.id].status = "SCHEDULED")
                => \/ q.res = "500" /\ appointments' = appointments
                   \/ /\ q.res = "200"
                      /\ appointments'[q.id].status = "CONFIRMED"
                      /\ OnlyChanges(q.id, {"status"})
           /\ q.res # "200" => appointments' = appointments]_vars

\* a confirm of an appointment already confirmed was refused
C5_Witness ==
  /\ reqs[1].op = "confirm" /\ reqs[1].pc = "done" /\ reqs[1].res = "400"
  /\ Exists(reqs[1].id)
  /\ appointments[reqs[1].id].status = "CONFIRMED"

HeldByOther(id, day, tod, clinicId) ==
  \E j \in DOMAIN appointments :
    /\ j # id
    /\ Active(appointments[j])
    /\ appointments[j].clinicId = clinicId
    /\ SlotOf(appointments[j]) = [day |-> day, tod |-> tod]

\* C7: reschedule succeeds only if the new date and time are strictly in the
\* future and no other non-terminal appointment of the clinic holds that
\* slot; on success the appointment gets the new date and time and status
\* SCHEDULED whatever its status was; a past date and time answer a
\* validation error (400), a slot taken answers a Conflict (409) unless the
\* database fails first (500), and all of them leave the record as it was.
C7_Reschedule ==
  [][Served("reschedule") =>
       LET q == reqs'[1]
           past == DateTime(q.day, q.tod) <= now
           taken == HeldByOther(q.id, q.day, q.tod, appointments[q.id].clinicId)
       IN  /\ q.res = "200" =>
                /\ ~past /\ ~taken
                /\ SlotOf(appointments'[q.id]) = [day |-> q.day, tod |-> q.tod]
                /\ appointments'[q.id].status = "SCHEDULED"
                /\ OnlyChanges(q.id, {"day", "dtod", "time", "status"})
           /\ q.res # "200" => appointments' = appointments
           /\ (Exists(q.id) /\ q.day # Null /\ past) => q.res = "400"
           /\ (Exists(q.id) /\ q.day # Null /\ ~past /\ taken) => q.res \in {"409", "500"}]_vars

\* a member of the staff, for the requests only the staff may send
AStaff == CHOOSE a \in StaffActors : TRUE

\* C8: after a successful reschedule of an appointment from slot s1 to slot
\* s2, a confirm that follows immediately succeeds and leaves the appointment
\* CONFIRMED at s2, and the single-slot availability check answers that s1
\* is available, provided no other non-terminal appointment holds s1.
C8_RescheduleThenConfirm ==
  \A i \in DOMAIN appointments :
    LET m == lastMut[i]
        a == appointments[i]
    IN  /\ m.op = "reschedule" => ConfirmOutcome(AStaff, TRUE, i).pc = "write"
        /\ m.op = "reschedule-confirm" => a.status = "CONFIRMED"
        /\ m.op \in {"reschedule", "reschedule-confirm"} =>
             /\ SlotOf(a) = m.to /\ a.dtod = m.to.tod
             /\ (m.from # m.to /\ ~HeldByOther(i, m.from.day, m.from.tod, a.clinicId))
                  => checkAvailability(m.from.day, m.from.tod, a.serviceId, a.clinicId)
                       = [code |-> "200", isAvailable |-> TRUE]

\* an appointment was moved to another slot and then confirmed, and the
\* slot it left is answered available
C8_Witness ==
  \E i \in DOMAIN appointments :
    /\ lastMut[i].op = "reschedule-confirm"
    /\ lastMut[i].from # lastMut[i].to
    /\ appointments[i].status = "CONFIRMED"
    /\ SlotOf(appointments[i]) = lastMut[i].to
    /\ checkAvailability(lastMut[i].from.day, lastMut[i].from.tod,
                         appointments[i].serviceId, appointments[i].clinicId).isAvailable

\* the caller holds a subscription ACTIVE that has not ended at `now`
ActiveSubscriptionNow(userId) ==
  \E i \in DOMAIN subs[userId] :
    subs[userId][i].status = "ACTIVE" /\ subs[userId][i].endDate >= now

\* C10: every appointment create produces has originalPrice equal to the
\* price of the service, and has the VIP discount d of the service applied
\* (finalPrice = price * (100 - d) / 100, vipDiscount = d) if and only if, at
\* the time of the request, the caller holds a subscription ACTIVE whose
\* endDate is not before the request time and d > 0; otherwise finalPrice =
\* originalPrice and vipDiscount = 0.
C10_CreatePricing ==
  [][(Served("create") /\ reqs'[1].res = "201") =>
       LET a == appointments'[reqs'[1].id]
           service == services[a.serviceId]
           d == service.vipDiscount
       IN  /\ a.originalPrice = service.price
           /\ IF ActiveSubscriptionNow(a.userId) /\ d > 0
                THEN /\ a.finalPrice * 100 = service.price * (100 - d)
                     /\ a.vipDiscount = d
                ELSE /\ a.finalPrice = a.originalPrice
                     /\ a.vipDiscount = 0]_vars

\* C11: the pricing calculator is a pure function: for every base price,
\* every service discount d in 0..100 and every VIP flag it returns
\* (basePrice, 0) when the requester is not VIP or d <= 0, and
\* (basePrice * (1 - d/100), d) when the requester is VIP and d > 0; d = 100
\* gives the final price 0 and is not rejected; the same arguments give the
\* same result on every call and no table is written.
C11_PricingCalculator ==
  /\ \A k \in DOMAIN calc.out :
       IF calc.isVIP /\ calc.vipDiscount > 0
         THEN /\ calc.out[k].finalPrice * 100 = calc.price * (100 - calc.vipDiscount)
              /\ calc.out[k].vipDiscount = calc.vipDiscount
              /\ (calc.vipDiscount = 100 => calc.out[k].finalPrice = 0)
         ELSE calc.out[k] = [finalPrice |-> calc.price, vipDiscount |-> 0]
  /\ \A k, l \in DOMAIN calc.out : calc.out[k] = calc.out[l]
  /\ appointments = << >>

\* a VIP requester was priced twice at a discount of 100 percent
C11_Witness ==
  /\ calc.isVIP /\ calc.vipDiscount = 100 /\ calc.price = 8500
  /\ Len(calc.out) = MaxCalls
  /\ calc.out[1].finalPrice = 0

\* C12: after every successful update the stored originalPrice, finalPrice
\* and vipDiscount of the appointment equal the pricing calculator applied to
\* the appointment's current service and to the VIP status of its owner at
\* the time of the update: no update leaves the snapshot stale.
C12_UpdateReprices ==
  [][(Served("update") /\ reqs'[1].res = "200") =>
       LET a == appointments'[reqs'[1].id]
           service == services[a.serviceId]
           pricing == Pricing(service.price, service.vipDiscount,
                              ActiveSubscriptionNow(a.userId))
       IN  /\ a.originalPrice = service.price
           /\ a.finalPrice = pricing.finalPrice
           /\ a.vipDiscount = pricing.vipDiscount]_vars

\* the stored prices of every appointment of the table are those of the next state
PricesKept ==
  \A id \in DOMAIN appointments :
    /\ id \in DOMAIN appointments'
    /\ appointments'[id].originalPrice = appointments[id].originalPrice
    /\ appointments'[id].finalPrice = appointments[id].finalPrice
    /\ appointments'[id].vipDiscount = appointments[id].vipDiscount

\* C13: snapshot pricing is framed. A confirm, a complete, a cancel or a
\* reschedule, and any step that changes a service's price or discount, a
\* subscription, a user's VIP flag or the clock, leaves the originalPrice,
\* the finalPrice and the vipDiscount of every existing appointment unchanged.
C13_SnapshotPricingFramed ==
  [][(\/ Served("confirm") \/ Served("complete")
      \/ Served("cancel") \/ Served("reschedule")
      \/ services' # services \/ subs' # subs \/ users' # users \/ now' # now)
       => PricesKept]_vars

\* an appointment was cancelled after its service's price had been changed
\* and its owner's subscription had ended: it keeps the prices of its booking
C13_Witness ==
  /\ reqs[1].op = "cancel" /\ reqs[1].res = "200"
  /\ LET a == appointments[reqs[1].id]
     IN  /\ a.status = "CANCELLED"
         /\ a.originalPrice # services[a.serviceId].price
         /\ a.finalPrice < a.originalPrice
         /\ ~ActiveSubscriptionNow(a.userId)

\* the range of a sequence
Listed(seq) == {seq[k] : k \in DOMAIN seq}

\* a time string <<hours, minutes>> in minutes after midnight
MinuteOfDay(t) == t[1] * 60 + t[2]

\* the services a caller of the clinic can book
Bookable(clinicId) ==
  {s \in ServiceIds : services[s].clinicId = clinicId /\ services[s].isActive}

\* C14: the single-slot check of create is the exclusion test of the full-day
\* enumeration. In every state, for the callers' clinic and every date,
\* bookable service and candidate time, checkTimeAvailability accepts the
\* candidate if and only if getAvailableSlots lists that time.
C14_SingleSlotCheckIsEnumeration ==
  \A actor \in Actors, date \in Days, tod \in Times :
    \A serviceId \in Bookable(actor.clinicId) :
      checkTimeAvailability(date, tod, actor.clinicId, Null)
        <=> TimeOfDay(tod) \in
              Listed(SlotsOutcome(actor.clinicId, TRUE, date, serviceId).availableSlots)

\* the non-terminal appointments of the clinic on a date
BookedOn(clinicId, date) ==
  {i \in DOMAIN appointments :
     /\ appointments[i].clinicId = clinicId
     /\ IsoDay(appointments[i]) = date
     /\ appointments[i].status \in NonTerminal}

\* the minutes open + 30 k before close that fit before close and are not booked
ExpectedSlots(clinicId, date, serviceId) ==
  LET open == MinuteOfDay(clinic.openTime)
      close == MinuteOfDay(clinic.closeTime)
  IN  {t \in open..(close - 1) :
         /\ (t - open) % 30 = 0
         /\ t + services[serviceId].duration <= close
         /\ \A i \in BookedOn(clinicId, date) :
              MinuteOfDay(TimeOfDay(appointments[i].time)) # t}

\* the weekday of a calendar date, 1 = Monday ... 7 = Sunday: the first day
\* of the calendar is a Saturday
Weekday(date) == ((date + 4) % 7) + 1

\* the date of a query is a working day of the clinic
WorkingDate(date) == Weekday(date) \in clinic.workingDays

\* C15: for a working date and an active service of the clinic,
\* getAvailableSlots answers with exactly the times open + 30 k (k >= 0) that
\* are before close, end no later than close and are not the time of a
\* non-terminal appointment of that clinic and date, earliest first and
\* without duplicates, computed from the store as it is at the call.
C15_SlotEnumeration ==
  [][(/\ Served("getAvailableSlots")
      /\ reqs'[1].res = "200"
      /\ WorkingDate(reqs'[1].day))
       => LET out == reqs'[1].data.availableSlots
              actorClinic == 1
          IN  /\ \A k, l \in DOMAIN out :
                   k < l => MinuteOfDay(out[k]) < MinuteOfDay(out[l])
              /\ {MinuteOfDay(out[k]) : k \in DOMAIN out}
                   = ExpectedSlots(actorClinic, reqs'[1].day, reqs'[1].in.serviceId)]_vars

\* C16: getAvailableSlots for a date whose weekday is not one of the clinic's
\* workingDays answers 200 with an empty list, whatever is booked that day.
C16_ClosedDayIsEmptySuccess ==
  [][(/\ Served("getAvailableSlots")
      /\ reqs'[1].day # Null
      /\ reqs'[1].in.serviceId \in Bookable(1)
      /\ reqs'[1].in.dbOk
      /\ ~WorkingDate(reqs'[1].day))
       => /\ reqs'[1].res = "200"
          /\ reqs'[1].data.availableSlots = << >>]_vars

\* the slot an update asks for: the date and the time of its body, each
\* defaulting to the appointment's own
Asks(q) ==
  [day |-> IF q.day # Null THEN q.day ELSE SlotOf(appointments[q.id]).day,
   tod |-> IF q.tod # Null THEN q.tod ELSE SlotOf(appointments[q.id]).tod]

\* C17: an update that names a date and/or a time re-checks the slot it asks
\* for with the appointment itself excluded. If another non-terminal
\* appointment of the clinic holds that slot the update answers Conflict
\* (409; 500 if the database fails first) and changes nothing; an update that
\* keeps the appointment in its own slot is never answered with a Conflict.
C17_UpdateRechecksSlot ==
  [][(/\ Served("update")
      /\ Exists(reqs'[1].id)
      /\ Authorised(reqs'[1], reqs'[1].id)
      /\ (reqs'[1].day # Null \/ reqs'[1].tod # Null))
       => LET q == reqs'[1]
              own == SlotOf(appointments[q.id])
              taken == HeldByOther(q.id, Asks(q).day, Asks(q).tod, appointments[q.id].clinicId)
          IN  /\ (Asks(q) # own /\ taken) =>
                   /\ q.res \in {"409", "500"}
                   /\ appointments' = appointments
              /\ q.res = "409" => appointments' = appointments
              /\ Asks(q) = own => q.res # "409"]_vars

\* the request q was sent by a CLIENTE
ByClient(q) == \E a \in Clients : a.userId = q.actor

\* C18: only STAFF or ADMIN change the status through update. An update sent
\* by a CLIENTE, whatever status its body asks for, leaves the status of
\* every appointment as it was.
C18_ClientUpdateKeepsStatus ==
  [][(Served("update") /\ ByClient(reqs'[1]))
       => /\ DOMAIN appointments' = DOMAIN appointments
          /\ \A i \in DOMAIN appointments :
               appointments'[i].status = appointments[i].status]_vars

\* an owner's update that asked for CANCELLED and a new time was answered
\* 200: the time is the new one, the status is still SCHEDULED
C18_Witness ==
  /\ reqs[1].op = "update" /\ reqs[1].res = "200" /\ ByClient(reqs[1])
  /\ "status" \in DOMAIN reqs[1].in /\ reqs[1].in.status = "CANCELLED"
  /\ reqs[1].tod # Null
  /\ appointments[reqs[1].id].time = reqs[1].tod
  /\ appointments[reqs[1].id].status = "SCHEDULED"

\* the request q was sent by a CLIENTE who does not own the appointment id
ByStranger(q, id) ==
  \E a \in Clients : a.userId = q.actor /\ appointments[id].userId # a.userId

\* C19: an update, a cancel or a reschedule sent by a CLIENTE for an
\* appointment of another user is answered Forbidden (403) and leaves the
\* appointments as they were.
C19_StrangerIsForbidden ==
  [][(/\ Served("update") \/ Served("cancel") \/ Served("reschedule")
      /\ Exists(reqs'[1].id)
      /\ ByStranger(reqs'[1], reqs'[1].id))
       => /\ reqs'[1].res = "403"
          /\ appointments' = appointments]_vars

\* user 2 asked to reschedule the appointment of user 1 and was answered 403;
\* the appointment is where its owner booked it
C19_Witness ==
  /\ reqs[1].op = "reschedule" /\ reqs[1].res = "403"
  /\ Exists(reqs[1].id) /\ ByStranger(reqs[1], reqs[1].id)
  /\ reqs[1].actor = 2 /\ appointments[reqs[1].id].userId = 1
  /\ appointments[reqs[1].id].status = "SCHEDULED"

\* C20: appointments are never physically deleted. Every step of create,
\* update, confirm, complete, cancel and reschedule keeps every record of the
\* table under the id it was created with, for the same user and clinic; a
\* cancellation only changes its status and its cancellation fields.
C20_NeverDeleted ==
  [][/\ Len(appointments') >= Len(appointments)
     /\ \A id \in DOMAIN appointments :
          /\ appointments'[id].userId = appointments[id].userId
          /\ appointments'[id].clinicId = appointments[id].clinicId
     /\ Served("cancel") /\ reqs'[1].res = "200"
          => OnlyChanges(reqs'[1].id, {"status", "cancelReason", "cancelledAt"})]_vars

\* the first of two appointments was cancelled and the second was then
\* moved: the cancelled record is still the first of the table
C20_Witness ==
  /\ Len(appointments) = MaxAppts
  /\ appointments[1].status = "CANCELLED"
  /\ appointments[MaxAppts].status = "SCHEDULED"
  /\ reqs[1].op = "reschedule" /\ reqs[1].res = "200" /\ reqs[1].id = MaxAppts

\* the appointments that are not terminal and occupy the slot (clinicId, day, tod)
Holders(clinicId, day, tod) ==
  {i \in DOMAIN appointments :
     /\ Active(appointments[i])
     /\ appointments[i].clinicId = clinicId
     /\ SlotOf(appointments[i]) = [day |-> day, tod |-> tod]}

\* C30: with every request served atomically, one at a time, after any sequence
\* of create, update, reschedule, cancel, confirm and complete no two
\* appointments in status SCHEDULED, CONFIRMED or IN_PROGRESS share the same
\* clinic, date and time.
C30_SerialSlotInvariant ==
  \A a \in Actors, day \in Days, tod \in Times :
    Cardinality(Holders(a.clinicId, day, tod)) <= 1

\* a handler of this step has called the notification sender after its write
Notified == reqs'[1] # reqs[1] /\ reqs'[1].pc = "done" /\ reqs'[1].notice # "none"

\* C21: a notification that fails (a rejected send) never changes what a
\* handler answers: once the write is persisted and the sender was called,
\* the response is the success of that write, 201 for a creation and 200
\* otherwise, whether the message was sent or not.
C21_NotificationFailureIsSwallowed ==
  [][Notified =>
       reqs'[1].res = (IF reqs'[1].op \in {"create", "vipSubscribe"} THEN "201" ELSE "200")]_vars

\* the user of the subscribe request served in this step
Subscriber == reqs'[1].actor

\* C23: subscribe by a user who holds a subscription ACTIVE with
\* endDate >= now is answered with Conflict (409) unless the request is
\* rejected before the check (400 for the body, 500 for the read); it stores
\* no subscription, does not touch the user and never calls the payment.
C23_ConflictWithoutCharge ==
  [][(Served("vipSubscribe") /\ ActiveSubscriptionNow(Subscriber)) =>
       /\ reqs'[1].res \in {"409", "400", "500"}
       /\ reqs'[1].data.payment = "none"
       /\ subs' = subs
       /\ users' = users]_vars

\* user 1 asked to subscribe while the seeded subscription was in force
C23_Witness ==
  /\ reqs[1].op = "vipSubscribe" /\ reqs[1].res = "409"
  /\ reqs[1].actor = 1 /\ reqs[1].data.payment = "none"
  /\ ActiveSubscriptionNow(1) /\ Len(subs[1]) = 1

\* C24: when the payment reports a failure, subscribe answers with the
\* payment error (400), stores no subscription and leaves the user's VIP
\* flag and vipExpiry as they were.
C24_PaymentFailurePersistsNothing ==
  [][(Served("vipSubscribe") /\ reqs'[1].data.payment = "failed") =>
       /\ reqs'[1].res = "400"
       /\ subs' = subs
       /\ users' = users]_vars

\* user 2, without any subscription, was refused by the payment
C24_Witness ==
  /\ reqs[1].op = "vipSubscribe" /\ reqs[1].res = "400"
  /\ reqs[1].actor = 2 /\ reqs[1].data.payment = "failed"
  /\ subs[2] = << >> /\ ~users[2].isVIP

\* the subscribe of this step has stored one new row for its user: ACTIVE,
\* starting now and ending one plan period later, the other rows kept
OneNewSubscription ==
  LET u == Subscriber
  IN  /\ subs' = [subs EXCEPT ![u] =
                    Append(@, [status |-> "ACTIVE", planType |-> reqs'[1].data.planType,
                               startDate |-> now,
                               endDate |-> now + PlanLen(reqs'[1].data.planType)])]

\* C25: a subscribe whose payment succeeded stores exactly one new
\* subscription, ACTIVE, with startDate = now and endDate one month (monthly)
\* or one year (annual) later, and leaves the user flagged VIP; a subscribe
\* that breaks off stores nothing, so that none ends with the new ACTIVE
\* subscription stored and the flag not set.
C25_SubscribeSetsFlagWithSubscription ==
  [][(Served("vipSubscribe") /\ reqs'[1].data.payment = "paid") =>
       \/ /\ OneNewSubscription
          /\ users' = [users EXCEPT ![Subscriber] =
                         [isVIP |-> TRUE,
                          vipExpiry |-> now + PlanLen(reqs'[1].data.planType)]]
       \/ /\ reqs'[1].res = "500"
          /\ subs' = subs
          /\ users' = users]_vars

\* C27: VIP cancel needs a subscription ACTIVE with endDate >= now: without
\* one it answers with an error (404, or 500 for a rejected read) and
\* changes nothing; when it succeeds (200) it has set the status of one such
\* subscription to CANCELLED and left its startDate and endDate, the other
\* subscriptions and the users' VIP flags as they were.
C27_CancelFrame ==
  [][Served("vipCancel") =>
       LET u == reqs'[1].actor
       IN  /\ users' = users
           /\ ~ActiveSubscriptionNow(u) =>
                reqs'[1].res \in {"404", "500"} /\ subs' = subs
           /\ reqs'[1].res = "200" =>
                \E i \in DOMAIN subs[u] :
                  /\ subs[u][i].status = "ACTIVE" /\ subs[u][i].endDate >= now
                  /\ subs' = [subs EXCEPT ![u][i].status = "CANCELLED"]
           /\ reqs'[1].res \notin {"200", "500"} => subs' = subs]_vars

\* user 1 has cancelled the seeded subscription: its dates and the flag stay
C27_Witness ==
  /\ reqs[1].op = "vipCancel" /\ reqs[1].res = "200" /\ reqs[1].actor = 1
  /\ subs[1] = <<[status |-> "CANCELLED", planType |-> "monthly",
                                  startDate |-> ModuleLoadTime - 1,
                  endDate |-> ModuleLoadTime]>>
  /\ users[1].isVIP

\* the sweep of this step ran without a rejected call
Swept == reqs'[1] # reqs[1] /\ reqs'[1].op = "updateExpiredVIPStatus" /\ reqs'[1].res = "done"

\* the row i of user u is ACTIVE and ended before now
Expired(u, i) == subs[u][i].status = "ACTIVE" /\ subs[u][i].endDate < now

C28_WitnessOtherActive ==
  /\ reqs[1].op = "updateExpiredVIPStatus" /\ reqs[1].res = "done"
  /\ \E u \in UserIds :
       /\ \E i \in DOMAIN subs[u] : subs[u][i].status = "EXPIRED"
       /\ ActiveSubscriptionNow(u)
       /\ users[u].isVIP

\* the user has cancelled a subscription whose endDate is still ahead
CancelledNotEnded(userId) ==
  \E i \in DOMAIN subs[userId] :
    subs[userId][i].status = "CANCELLED" /\ now < subs[userId][i].endDate

\* C26: a user who cancelled the subscription keeps the benefits until its
\* endDate: at every time before it the status query reports isVIP = true,
\* and every appointment the user can book is priced with the service's VIP
\* discount.
C26_BenefitsUntilEndDate ==
  \A a \in Clients :
    CancelledNotEnded(a.userId) =>
      /\ getStatus(a.userId).isVIP
      /\ \A day \in Days, tod \in Times, serviceId \in ServiceIds :
           LET q == CreateOutcome(a, TRUE, TRUE, day, tod, serviceId)
           IN  q.pc = "write" =>
                 q.data.finalPrice =
                   calculateVIPPrice(services[serviceId].price,
                                     services[serviceId].vipDiscount).finalPrice

\* the sum of originalPrice - finalPrice over the appointments `ids`
RECURSIVE SumSaved(_)
SumSaved(ids) ==
  IF ids = {} THEN 0
  ELSE LET i == CHOOSE j \in ids : TRUE
       IN  (appointments[i].originalPrice - appointments[i].finalPrice) + SumSaved(ids \ {i})

\* the COMPLETED appointments of the user created since the startDate of the
\* subscription in force
CompletedSince(userId) ==
  {i \in DOMAIN appointments :
     /\ appointments[i].userId = userId
     /\ appointments[i].status = "COMPLETED"
     /\ appointments[i].createdAt >= getStatus(userId).memberSince}

\* C29: for a VIP user the savings figure of the status query equals the sum
\* of originalPrice - finalPrice over the user's COMPLETED appointments since
\* the startDate of the subscription in force.
C29_SavingsAreMoneySaved ==
  \A a \in Clients :
    getStatus(a.userId).isVIP =>
      getStatus(a.userId).totalSavings = SumSaved(CompletedSince(a.userId))

\* the subscriptions of the user that are ACTIVE and have not ended at `now`
InForce(userId) ==
  {i \in DOMAIN subs[userId] :
     subs[userId][i].status = "ACTIVE" /\ subs[userId][i].endDate >= now}

\* C22: whatever the interleaving of the subscribe and reactivate requests
\* of a user, the payment taking its time between the check and the insert,
\* the user never holds more than one subscription ACTIVE with
\* endDate >= now.
C22_OneSubscriptionInForce ==
  \A u \in UserIds : Cardinality(InForce(u)) <= 1

\* the edges of the lifecycle diagram
LifecycleEdges ==
  { <<"SCHEDULED", "CONFIRMED">>, <<"CONFIRMED", "COMPLETED">>,
    <<"IN_PROGRESS", "COMPLETED">>, <<"SCHEDULED", "CANCELLED">>,
    <<"CONFIRMED", "CANCELLED">>, <<"CONFIRMED", "SCHEDULED">> }

\* C31: every change of status made by confirm, complete, cancel or
\* reschedule is an edge of the lifecycle diagram; cancel does not fire from
\* IN_PROGRESS or NO_SHOW and reschedule does not fire from CANCELLED,
\* COMPLETED, IN_PROGRESS or NO_SHOW.
C31_LifecycleEdgesOnly ==
  [][(\E op \in {"confirm", "complete", "cancel", "reschedule"} : Served(op)) =>
       \A i \in DOMAIN appointments :
         /\ appointments'[i].status # appointments[i].status =>
              <<appointments[i].status, appointments'[i].status>> \in LifecycleEdges
         /\ (Served("cancel") /\ appointments'[i] # appointments[i]) =>
              appointments[i].status \notin {"IN_PROGRESS", "NO_SHOW"}
         /\ (Served("reschedule") /\ appointments'[i] # appointments[i]) =>
              appointments[i].status \in {"SCHEDULED", "CONFIRMED"}]_vars

\* every subscription of the user, whatever its status, has ended
AllEnded(userId) ==
  \A i \in DOMAIN subs[userId] : subs[userId][i].endDate < now

\* C32: with the sweep run again and again, a flagged user whose
\* subscriptions have all ended (none with endDate >= now) eventually loses
\* the VIP flag, unless a new subscription comes first; this holds also when
\* the last subscription was cancelled by the user before it ended.
C32_FlagEventuallyCleared ==
  \A u \in UserIds :
    (subs[u] # << >> /\ AllEnded(u) /\ users[u].isVIP)
      ~> (~users[u].isVIP \/ ~AllEnded(u))

\* the handlers that write an appointment
Mutating == {"create", "update", "confirm", "complete", "cancel", "reschedule"}

\* C33: every create, update, confirm, complete, cancel or reschedule that
\* succeeds hands a notification to the sender after its write is persisted
\* (the attempt is made, whether the message is sent or fails).
C33_SuccessNotifies ==
  [][(\E op \in Mutating : Served(op) /\ reqs'[1].res \in {"200", "201"}) =>
       reqs'[1].notice \in NotificationOutcomes]_vars

\* C34: in every state the time of day of an appointment's stored date
\* (its datetime) is the time its time field names, after create,
\* reschedule and any successful update, so that the match on the datetime
\* and the match on the time string name the same slot.
C34_DateCarriesTime ==
  \A i \in DOMAIN appointments : appointments[i].dtod = appointments[i].time

\* C35: in every state an appointment has cancelledAt and cancelReason set
\* exactly when its status is CANCELLED, and completedAt set exactly when
\* its status is COMPLETED, whatever sequence of create, update, confirm,
\* complete, cancel and reschedule led there.
C35_StampsFollowStatus ==
  \A i \in DOMAIN appointments :
    LET a == appointments[i]
    IN  /\ (a.cancelledAt # Null) <=> (a.status = "CANCELLED")
        /\ (a.cancelReason # NullText) <=> (a.status = "CANCELLED")
        /\ (a.completedAt # Null) <=> (a.status = "COMPLETED")

\* the requests r and s are answered with success, act on the same
\* appointment, are both among confirm, complete and cancel, and s was
\* between its read and its write when r read
OverlappedPair(r, s) ==
  /\ r # s
  /\ reqs[r].pc = "done" /\ reqs[s].pc = "done"
  /\ reqs[r].res = "200" /\ reqs[s].res = "200"
  /\ reqs[r].op \in {"confirm", "complete", "cancel"}
  /\ reqs[s].op \in {"confirm", "complete", "cancel"}
  /\ reqs[r].id = reqs[s].id
  /\ s \in reqs[r].conc

\* C36: two overlapping requests among confirm, complete and cancel on one
\* appointment are answered, and leave the status, as some serial order of
\* the two would: two overlapping cancels are never both answered with
\* success, and when a cancel is one of two successes the status they leave
\* is neither CONFIRMED nor COMPLETED.
C36_LifecycleLinearizable ==
  \A r, s \in ReqIds :
    OverlappedPair(r, s) =>
      /\ ~(reqs[r].op = "cancel" /\ reqs[s].op = "cancel")
      /\ "cancel" \in {reqs[r].op, reqs[s].op} =>
           appointments[reqs[r].id].status \notin {"CONFIRMED", "COMPLETED"}

\* the request answered in this step came from the staff of clinic 2
FromOtherClinic ==
  /\ nops' = nops + 1
  /\ reqs'[1].actor = OtherClinicStaff.userId
  /\ reqs'[1].op \in {"update", "cancel", "reschedule", "confirm", "complete"}

\* C37: an update, cancel, reschedule, confirm or complete sent by a STAFF
\* caller changes only appointments of the caller's own clinic: a request
\* that names an appointment of another clinic leaves it as it was.
C37_StaffStaysInOwnClinic ==
  [][FromOtherClinic =>
       \A i \in DOMAIN appointments :
         appointments[i].clinicId # OtherClinicStaff.clinicId =>
           appointments'[i] = appointments[i]]_vars

\* the step has stored a new ACTIVE subscription of the user, or has changed
\* the endDate or the plan (and with it the price) of one that stays ACTIVE
GrantsSubscription(userId) ==
  \/ /\ Len(subs'[userId]) > Len(subs[userId])
     /\ subs'[userId][Len(subs'[userId])].status = "ACTIVE"
  \/ \E i \in DOMAIN subs[userId] :
       /\ subs'[userId][i].status = "ACTIVE"
       /\ \/ subs'[userId][i].endDate # subs[userId][i].endDate
          \/ subs'[userId][i].planType # subs[userId][i].planType

\* the request answered in this step has charged the payment collaborator
\* with success
Charged ==
  /\ "payment" \in DOMAIN reqs'[1].data
  /\ reqs'[1].data.payment = "paid"

\* C38: an ACTIVE subscription is created only after a successful charge,
\* and its endDate or price changes afterwards only in a request that
\* charged, or in an administrator's extend: no request of a user yields or
\* lengthens an ACTIVE subscription without a successful payment.
C38_ActiveOnlyAfterPayment ==
  [][\A u \in UserIds :
       GrantsSubscription(u) => (Charged \/ reqs'[1].op = "vipExtend")]_vars

----------------------------------------------------------------------------
\* The per-user rate limiter (middleware/auth.js, userRateLimit)

maxRequests == 2                \* the limit of one window (5 on /register, 10 on /login)
windowMs == 2                   \* the length of the window, in clock ticks
MaxLimiterNow == 6              \* the clock stops here under SpecLimiter
MaxLimiterReqs == 6             \* requests that reach the limiter
LimiterUsers == {1, 2}          \* req.user.id of the authenticated callers

\* the clock of the limiter's runs: Date.now() grows between two requests
LimiterTick ==
  /\ now < MaxLimiterNow
  /\ now' = now + 1
  /\ UNCHANGED <<appointments, subs, reqs, nops, lastMut, calc, services, users, clinic, tzOffset,
               userRequestCounts, admitted>>

\* the Map after the loop that deletes every entry older than the window
limiterCleanup(windowStart) ==
  [u \in UserIds |->
     IF userRequestCounts[u].count > 0 /\ userRequestCounts[u].firstRequest < windowStart
     THEN NoEntry ELSE userRequestCounts[u]]

\* one pass through the middleware for an authenticated user: the new Map
\* and "next" (the request goes on) or "429"
userRateLimitOutcome(userId) ==
  LET windowStart == now - windowMs
      cleaned == limiterCleanup(windowStart)
      userRequests == cleaned[userId]
      first == [count |-> 1, firstRequest |-> now]
  IN IF userRequests.count = 0
     THEN [counts |-> [cleaned EXCEPT ![userId] = first], res |-> "next"]
     ELSE IF userRequests.firstRequest < windowStart
     THEN [counts |-> [cleaned EXCEPT ![userId] = first], res |-> "next"]
     ELSE IF userRequests.count >= maxRequests
     THEN [counts |-> cleaned, res |-> "429"]
     ELSE [counts |-> [cleaned EXCEPT ![userId].count = @ + 1], res |-> "next"]

\* a request reaches the limiter; Null: req.user is not set (as on /register
\* and /login, where no authenticateToken runs before it) and it goes on uncounted
userRateLimit ==
  /\ nops < MaxLimiterReqs
  /\ \E userId \in LimiterUsers \cup {Null} :
       IF userId = Null
       THEN /\ reqs' = [reqs EXCEPT ![1] = VipRespond("userRateLimit", "next", Null)]
            /\ UNCHANGED <<userRequestCounts, admitted>>
       ELSE LET o == userRateLimitOutcome(userId)
            IN /\ userRequestCounts' = o.counts
               /\ admitted' = IF o.res = "next"
                              THEN [admitted EXCEPT ![userId] = Append(@, now)]
                              ELSE admitted
               /\ reqs' = [reqs EXCEPT ![1] = VipRespond("userRateLimit", o.res, userId)]
  /\ nops' = nops + 1
  /\ UNCHANGED <<appointments, subs, now, lastMut, calc, services, users, clinic, tzOffset>>

NextLimiter ==
  \/ LimiterTick
  \/ userRateLimit

SpecLimiter == Init /\ [][NextLimiter]_vars

\* the requests of a user let through at the times from..(from + windowMs - 1)
AdmittedIn(userId, from) ==
  {i \in DOMAIN admitted[userId] :
     admitted[userId][i] >= from /\ admitted[userId][i] < from + windowMs}

\* no user had more than maxRequests requests let through in windowMs ticks
WithinLimit ==
  \A u \in UserIds : \A from \in 0..MaxLimiterNow :
    Cardinality(AdmittedIn(u, from)) <= maxRequests

\* a pass of the limiter moves the start of a user's window only when
\* windowMs have passed since it, and changes the entry of a user other than
\* the caller only by deleting it
ResetAndIsolation ==
  userRateLimit =>
    \A u \in LimiterUsers :
      /\ (/\ userRequestCounts[u].count > 0
          /\ userRequestCounts'[u].firstRequest # userRequestCounts[u].firstRequest)
         => now >= userRequestCounts[u].firstRequest + windowMs
      /\ (reqs'[1].actor # u /\ userRequestCounts'[u] # userRequestCounts[u])
         => userRequestCounts'[u] = NoEntry

\* C39: the limiter lets through, for each authenticated user, at most
\* maxRequests requests in any interval of time of length windowMs; the counter
\* of a user starts again only when windowMs have passed since the first
\* request it counted, and the requests of one user leave the counter of every
\* other user as it was.
C39_AtMostMaxPerWindow == []WithinLimit /\ [][ResetAndIsolation]_vars

=============================================================================
